---- MODULE Spec2Model ----
(***************************************************************************)
(* LiveDance backend (src/backend/app.py): the latest-wins frame buffer,   *)
(* the WebSocket handlers that feed it and start the inference thread, and *)
(* the inference loop that drains it.                                      *)
(*                                                                         *)
(* Threads.  Flask-SocketIO runs with async_mode='threading': every        *)
(* 'connect' and every 'frame' event runs handle_connect / handle_frame on *)
(* a thread of its own, and every HTTP request (start/stop tracking) too.  *)
(* An inference thread is identified by the connect handler that created   *)
(* it.  A step of the model is one access to shared state (a lock, a       *)
(* global, the socket) together with the thread-local code around it.      *)
(***************************************************************************)
EXTENDS Integers, Sequences, FiniteSets, TLC

\* ---------------------------------------------------------------- bounds
MaxPuts == 2          \* frame events received over the run
NumProducers == 2     \* concurrent handle_frame threads

Producers == 1..NumProducers
\* the handle_connect threads: two clients connecting at once
Connects == {1, 2}
\* thread identities: producers "p", connect handlers "c", inference loops "l"
PId(p) == <<"p", p>>
LId(l) == <<"l", l>>

\* Python's None where a frame is expected, where a path is, where an
\* exception is; a local is the set of its value, empty while unbound
None == [none |-> TRUE]
NoPath == <<>>
NoEvent == [none |-> TRUE]
NoDet == "None"
Unbound == {}
Free == <<"free">>

\* What the 'image' field of a frame event can hold, by what the decode
\* stage makes of it: b64decode raises, imdecode returns None, an image.
Bytes == {"bad_b64", "not_image", "jpeg"}
\* The (image, use3D) pairs of the frame events sent: an image in either
\* mode, and the two undecodable payloads (whose use3D is never read) in
\* the default mode.
FrameKinds == {<<"jpeg", TRUE>>, <<"jpeg", FALSE>>, <<"bad_b64", TRUE>>, <<"not_image", TRUE>>}

\* One frame event as the client sends it.  The client numbers its frames
\* (sequence) and stamps them (timestamp).
FrameOf(n, b, u) == [bytes |-> b, timestamp |-> 100 + n, sequence |-> n, use3D |-> u]

\* What the detector stage (pose.process, hands.process and the landmark
\* projection) can do with an image.
DetectOutcomes == {"raise", "no_body", "body", "body_world"}

\* Exceptions the loop's handler can catch that a collaborator raised, by
\* the stage: the payload is not base64, the detector, the screenshot
\* write, the socket.
StageFailures == {"decode", "detector", "logging", "emit"}

VARIABLES
    \* LatestFrameBuffer
    frame_data,        \* the slot: None or a frame
    dropped_count,     \* frames overwritten since the last get_stats
    lock,              \* frame_buffer.lock: Free or the holder's identity
    \* handle_frame threads
    ppc,               \* position of each producer
    parg,              \* the frame a producer is putting
    nextSeq,           \* frame events received so far
    \* handle_connect threads and the inference globals
    cpc,               \* position of each connect handler
    inference_running,
    \* inference loops
    pc,                \* position of each loop
    cur,               \* frame_data local of the loop
    use3D,             \* use3D local of the loop (Unbound until first bound)
    det,               \* what the detector stage produced this cycle
    todo,              \* error_scores items not yet logged, as <<joint, score>>
    current_time,      \* current_time local of the loop
    frame_to_save,     \* whether frame_to_save is the image (not None)
    count,             \* count local of get_stats
    \* tracking
    tracking_active,
    \* MistakeTracker
    max_mistakes,      \* the capacity the tracker was constructed with
    error_history,     \* the deque, oldest entry first
    error_counts,      \* the dict, as its items <<joint, count>> in insertion order
    major_errors,
    session_start_time, session_id,
    now,               \* time.time(), in seconds
    \* tracking endpoints
    requests,          \* tracking_lock and the requests that take it:
                       \*   tracking_lock: Free or the request that holds it
                       \*   tpc: position of the start_tracking request
                       \*   spc: position of the tracking_status request
                       \*   sflag: tracking_active as the status request read it first
                       \*   status: the last answer of tracking_status, if any
    \* PoseSmoothing
    smoother,          \* the attributes smoothed_body, smoothed_hands,
                       \* smoothed_3d_angles, smoothed_3d_coords of the smoother
    smoothLog,         \* returned: what the last smooth_* call returned, if any;
                       \* fed (history): the channel of each non-empty input so far;
                       \* gone (history): the hand sides an empty input cleared
    \* functions and handlers without state of their own
    call,              \* fn: the one called last; args: what it is given;
                       \* result: what it returned, if it was called
    \* the locks alone
    threads,           \* at: per thread, the lock operations it has yet to do;
                       \* holder: per lock, Free or the thread that holds it
    \* socket
    emitted,           \* the pose_result event sent last, NoEvent before the first
    \* history (not program state)
    lastPut,           \* frame of the last put to take the lock since a get took it
    gotExpect,         \* lastPut as it was when the loop's get took the lock
    overwrites,        \* puts that took the lock with the slot occupied
    drained,           \* sum of the values get_stats returned
    takenCount,        \* per frame: number of gets that returned it
    cyc                \* per loop: what the current cycle has done

bufVars == <<frame_data, dropped_count, lock>>
prodVars == <<ppc, parg, nextSeq>>
connVars == <<cpc, inference_running>>
loopVars == <<pc, cur, use3D, det, todo, current_time, frame_to_save, count>>
trackVars == <<tracking_active, max_mistakes, error_history, error_counts,
               major_errors, session_start_time, session_id, now>>
histVars == <<lastPut, gotExpect, overwrites, drained, takenCount, cyc>>
statusVars == <<requests>>
smoothVars == <<smoother, smoothLog>>
callVars == <<call>>
lockVars == <<threads>>
vars == <<bufVars, prodVars, connVars, loopVars, trackVars, emitted, histVars,
          statusVars, smoothVars, callVars, lockVars>>

\* what the loop's current (or, until it gets the next frame, its last)
\* iteration on a frame has done: calls of get_stats, whether the 3-D
\* smoothing ran, and how it ended: "emitted", "skipped" (the continue
\* after imdecode) or the exception the handler caught.  For the tracker:
\* whether tracking was active from the moment the frame was taken on
\* (active), what the tracking check read ("none" while it has not run),
\* the number of joints scored (scored), the log_error calls that returned
\* (calls), and whether start_tracking reset the tracker after the
\* iteration's tracking check and before its logging ended (stale).
NewCycle == [stats |-> 0, smooth3D |-> FALSE, outcome |-> "running",
             active |-> FALSE, check |-> "none", scored |-> 0, calls |-> 0,
             stale |-> FALSE]
\* the record of an iteration that ended: the tracker fields are kept
\* only while the iteration runs
CycleEnd(c, how) ==
    [NewCycle EXCEPT !.stats = c.stats, !.smooth3D = c.smooth3D, !.outcome = how]

\* what an optional value holds: nothing (None) or the one value
Nothing == {}
Just(v) == {v}
The(s) == CHOOSE v \in s : TRUE

\* no tracking request under way, no status answered yet
StatusInit ==
    requests = [tracking_lock |-> Free, tpc |-> "idle", spc |-> "idle",
                sflag |-> FALSE, status |-> Nothing]

\* the channels of the smoother
Channels == {"body", "left", "right", "angles", "coords"}
\* smoother = PoseSmoothing(alpha=0.7): nothing smoothed yet
SmoothInit ==
    /\ smoother = [smoothed_body |-> Nothing,
                   smoothed_hands |-> [side \in {"left", "right"} |-> Nothing],
                   smoothed_3d_angles |-> Nothing,
                   smoothed_3d_coords |-> Nothing]
    /\ smoothLog = [returned |-> Nothing, fed |-> <<>>, gone |-> {}]

\* the threads that take locks: the frame event handler, the inference
\* loop and the handlers of the administrative requests
Threads ==
    {"handle_frame", "inference_loop", "start_tracking", "stop_tracking", "reset_mistakes",
     "tracking_status", "get_mistake_report", "export_report"}
\* frame_buffer.lock, tracking_lock and mistake_tracker.lock
LockNames == {"frame_buffer.lock", "tracking_lock", "mistake_tracker.lock"}
\* every lock free, no thread in a handler
LockInit ==
    threads = [at |-> [t \in Threads |-> <<>>], holder |-> [l \in LockNames |-> Free]]

\* no function under study called
CallInit == call = [fn |-> "none", args |-> <<>>, result |-> Nothing]

\* the module as imported, but for the call under study
Loaded ==
    /\ frame_data = None
    /\ dropped_count = 0
    /\ lock = Free
    /\ ppc = [p \in Producers |-> "idle"]
    /\ parg = [p \in Producers |-> None]
    /\ nextSeq = 0
    /\ cpc = [c \in Connects |-> "idle"]
    /\ inference_running = FALSE
    /\ pc = [l \in Connects |-> "off"]
    /\ cur = [l \in Connects |-> None]
    /\ use3D = [l \in Connects |-> Unbound]
    /\ det = [l \in Connects |-> NoDet]
    /\ todo = [l \in Connects |-> <<>>]
    /\ current_time = [l \in Connects |-> 0]
    /\ frame_to_save = [l \in Connects |-> FALSE]
    /\ count = [l \in Connects |-> 0]
    /\ tracking_active = FALSE
    /\ max_mistakes = 1000
    /\ error_history = <<>>
    /\ error_counts = <<>>
    /\ major_errors = <<>>
    /\ session_start_time = 0
    /\ session_id = 0
    /\ now = 0
    /\ emitted = NoEvent
    /\ lastPut = None
    /\ gotExpect = [l \in Connects |-> None]
    /\ overwrites = 0
    /\ drained = 0
    /\ takenCount = [n \in 1..MaxPuts |-> 0]
    /\ cyc = [l \in Connects |-> NewCycle]
    /\ StatusInit
    /\ SmoothInit
    /\ LockInit

Init ==
    /\ Loaded
    /\ CallInit

\* ------------------------------------------------------- handle_frame / put
\* handle_frame reads the event's fields and calls frame_buffer.put, which
\* enters `with self.lock:`.  The frame events are numbered (sequence) and
\* stamped by the client in the order in which their puts take the lock.
HandleFrame(p, b, u) ==
    /\ ppc[p] = "idle"
    /\ nextSeq < MaxPuts
    /\ lock = Free
    /\ lock' = PId(p)
    /\ nextSeq' = nextSeq + 1
    /\ parg' = [parg EXCEPT ![p] = FrameOf(nextSeq + 1, b, u)]
    /\ ppc' = [ppc EXCEPT ![p] = "put_check"]
    /\ lastPut' = FrameOf(nextSeq + 1, b, u)
    /\ overwrites' = overwrites + (IF frame_data # None THEN 1 ELSE 0)
    /\ UNCHANGED <<statusVars, smoothVars, callVars, lockVars,
                   frame_data, dropped_count, connVars, loopVars, trackVars, emitted,
                   gotExpect, drained, takenCount, cyc>>

\* put as it would be if it counted a drop whatever the slot holds
PutCheck_CountsAlways(p) ==
    /\ ppc[p] = "put_check"
    /\ dropped_count' = dropped_count + 1
    /\ ppc' = [ppc EXCEPT ![p] = "put_store"]
    /\ UNCHANGED <<statusVars, smoothVars, callVars, lockVars,
                   frame_data, lock, parg, nextSeq, connVars, loopVars, trackVars,
                   emitted, histVars>>

\* put: `if self.frame_data is not None: self.dropped_count += 1`
PutCheck(p) ==
    /\ ppc[p] = "put_check"
    /\ dropped_count' = IF frame_data # None THEN dropped_count + 1 ELSE dropped_count
    /\ ppc' = [ppc EXCEPT ![p] = "put_store"]
    /\ UNCHANGED <<statusVars, smoothVars, callVars, lockVars,
                   frame_data, lock, parg, nextSeq, connVars, loopVars, trackVars,
                   emitted, histVars>>

\* put as a first-wins buffer would do it: an occupied slot keeps its frame
PutStore_KeepsOld(p) ==
    /\ ppc[p] = "put_store"
    /\ frame_data' = IF frame_data # None THEN frame_data ELSE parg[p]
    /\ lock' = Free
    /\ ppc' = [ppc EXCEPT ![p] = "idle"]
    /\ parg' = [parg EXCEPT ![p] = None]
    /\ UNCHANGED <<statusVars, smoothVars, callVars, lockVars,
                   dropped_count, nextSeq, connVars, loopVars, trackVars, emitted,
                   histVars>>

\* put: `self.frame_data = {...}` and the end of the with block
PutStore(p) ==
    /\ ppc[p] = "put_store"
    /\ frame_data' = parg[p]
    /\ lock' = Free
    /\ ppc' = [ppc EXCEPT ![p] = "idle"]
    /\ parg' = [parg EXCEPT ![p] = None]
    /\ UNCHANGED <<statusVars, smoothVars, callVars, lockVars,
                   dropped_count, nextSeq, connVars, loopVars, trackVars, emitted,
                   histVars>>

\* ------------------------------------------------------------ handle_connect
\* `if not inference_running:` reads the global ...
ConnectCheck(c) ==
    /\ cpc[c] = "idle"
    /\ cpc' = [cpc EXCEPT ![c] = IF inference_running THEN "done" ELSE "start"]
    /\ UNCHANGED <<statusVars, smoothVars, callVars, lockVars,
                   bufVars, prodVars, inference_running, loopVars, trackVars,
                   emitted, histVars>>

\* ... and the branch sets it and starts a thread on inference_loop.
ConnectStart(c) ==
    /\ cpc[c] = "start"
    /\ inference_running' = TRUE
    /\ cpc' = [cpc EXCEPT ![c] = "done"]
    /\ pc' = [pc EXCEPT ![c] = "top"]
    /\ UNCHANGED <<statusVars, smoothVars, callVars, lockVars,
                   bufVars, prodVars, cur, use3D, det, todo, current_time,
                   frame_to_save, count, trackVars, emitted,
                   histVars>>

\* ------------------------------------------------------------ MistakeTracker
\* What becomes of the screenshot of a major error in log_error: the file
\* is written; cv2.imwrite fails and returns False, which log_error does
\* not look at; the annotation or the write raises, and the exception
\* leaves log_error before anything is recorded.
WriteOutcomes == {"written", "unwritten", "raise"}

\* Error scores are floats in degrees; the model counts them in thousandths
\* of a degree, so that round(error_score, 2) is not the identity.
Milli(d) == d * 1000
ERROR_THRESHOLD == 5
SCREENSHOT_THRESHOLD == 15

\* round(x, 2) on thousandths: to the nearest hundredth, a tie to the even
\* one
Round2(x) ==
    LET q == x \div 10
        r == x % 10
    IN IF r < 5 THEN q * 10
       ELSE IF r > 5 THEN (q + 1) * 10
       ELSE IF q % 2 = 0 THEN q * 10 ELSE (q + 1) * 10

\* the joints calculate_3d_angles_mediapipe gives an angle for, in the
\* order it inserts them (the first of the eight stands for all)
AngleJoints == <<"left_elbow">>
\* error scores mock_pose_comparison can draw: a minor one below the
\* logging threshold and a major one
MockScores == {Milli(3), Milli(20)}

\* the append of a bounded queue that refuses a new entry when it is full
DequeAppend_DropsNewest(q, e) ==
    IF Len(q) >= max_mistakes THEN q ELSE Append(q, e)

\* deque(maxlen=max_mistakes).append
DequeAppend(q, e) ==
    IF Len(q) >= max_mistakes THEN Append(Tail(q), e) ELSE Append(q, e)

\* the name log_error gives the screenshot of an entry:
\* f"{session_id}_frame{sequence}_{joint_name}_{int(error_score)}deg.jpg"
ScreenshotPath(sid, seq, joint, score) == <<sid, seq, joint, score \div 1000>>

\* error_counts.get(joint, 0) and the dict after error_counts[joint] = n:
\* a new key goes last, an old key keeps its place
CountOf(counts, joint) ==
    IF \E i \in 1..Len(counts) : counts[i][1] = joint
    THEN counts[CHOOSE i \in 1..Len(counts) : counts[i][1] = joint][2]
    ELSE 0
SetCount(counts, joint, n) ==
    IF \E i \in 1..Len(counts) : counts[i][1] = joint
    THEN [i \in 1..Len(counts) |->
             IF counts[i][1] = joint THEN <<joint, n>> ELSE counts[i]]
    ELSE Append(counts, <<joint, n>>)

\* the entry as it would be if the screenshot did not depend on an image
\* being passed
ErrorEntry_NoImageTest(joint, score, ts, seq, img) ==
    [joint |-> joint, error_score |-> Round2(score), timestamp |-> ts, frame |-> seq,
     screenshot_path |-> IF score > Milli(SCREENSHOT_THRESHOLD)
                         THEN ScreenshotPath(session_id, seq, joint, score)
                         ELSE NoPath]

\* log_error, under the tracker's lock: the entry it records
ErrorEntry(joint, score, ts, seq, img) ==
    [joint |-> joint, error_score |-> Round2(score), timestamp |-> ts, frame |-> seq,
     screenshot_path |-> IF score > Milli(SCREENSHOT_THRESHOLD) /\ img
                         THEN ScreenshotPath(session_id, seq, joint, score)
                         ELSE NoPath]

\* log_error as it would be with `>=` in its first test
log_error_AtThreshold(joint, score, ts, seq, img) ==
    IF score >= Milli(ERROR_THRESHOLD)
    THEN LET e == ErrorEntry(joint, score, ts, seq, img) IN
         /\ major_errors' = IF e.screenshot_path # NoPath
                            THEN Append(major_errors, e) ELSE major_errors
         /\ error_history' = DequeAppend(error_history, e)
         /\ error_counts' = SetCount(error_counts, joint, CountOf(error_counts, joint) + 1)
    ELSE UNCHANGED <<error_history, error_counts, major_errors>>

\* log_error as a step on the tracker
log_error(joint, score, ts, seq, img) ==
    IF score > Milli(ERROR_THRESHOLD)
    THEN LET e == ErrorEntry(joint, score, ts, seq, img) IN
         /\ major_errors' = IF e.screenshot_path # NoPath
                            THEN Append(major_errors, e) ELSE major_errors
         /\ error_history' = DequeAppend(error_history, e)
         /\ error_counts' = SetCount(error_counts, joint, CountOf(error_counts, joint) + 1)
    ELSE UNCHANGED <<error_history, error_counts, major_errors>>

\* the insertion of a sort that is not stable: an item goes before the
\* items with an equal key
InsertDesc_BeforeTies(sorted, x) ==
    LET smaller == {i \in 1..Len(sorted) : sorted[i][1] <= x[1]} IN
    IF smaller = {} THEN Append(sorted, x)
    ELSE LET k == CHOOSE i \in smaller : \A m \in smaller : i <= m IN
         SubSeq(sorted, 1, k - 1) \o <<x>> \o SubSeq(sorted, k, Len(sorted))

\* sorted(..., key=..., reverse=True) on a list of <<key, item>> pairs.
\* Python's sort is stable, also when reversed: items with equal keys stay
\* in their original order.  By insertion from the left, an item going
\* before the first item with a smaller key.
InsertDesc(sorted, x) ==
    LET smaller == {i \in 1..Len(sorted) : sorted[i][1] < x[1]} IN
    IF smaller = {} THEN Append(sorted, x)
    ELSE LET k == CHOOSE i \in smaller : \A m \in smaller : i <= m IN
         SubSeq(sorted, 1, k - 1) \o <<x>> \o SubSeq(sorted, k, Len(sorted))

RECURSIVE SortDesc(_)
SortDesc(pairs) ==
    IF pairs = <<>> THEN <<>>
    ELSE InsertDesc(SortDesc(SubSeq(pairs, 1, Len(pairs) - 1)), pairs[Len(pairs)])

\* the slice [:10]
Top10(q) == SubSeq(q, 1, IF Len(q) < 10 THEN Len(q) ELSE 10)

\* round(count / total * 100, 1), in tenths of a percent: the nearest
\* tenth (count * 1000 / total is halfway between two tenths only when
\* total is a multiple of 16)
Percentage(n, total) == (2000 * n + total) \div (2 * total)

\* get_comprehensive_report, under the tracker's lock: frequent_report,
\* the items of error_counts by count, and worst_moments, the entries of
\* the history with a screenshot by score; both empty in the report of an
\* empty history
frequent_report ==
    IF error_history = <<>> THEN <<>>
    ELSE LET byCount == [i \in 1..Len(error_counts) |->
                            <<error_counts[i][2], error_counts[i]>>]
             top == Top10(SortDesc(byCount))
         IN [i \in 1..Len(top) |->
                [joint |-> top[i][2][1], count |-> top[i][2][2],
                 percentage |-> Percentage(top[i][2][2], Len(error_history))]]

\* worst_moments as it would be without the sort
worst_moments_Unsorted ==
    Top10(SelectSeq(error_history, LAMBDA e : e.screenshot_path # NoPath))

worst_moments ==
    LET shots == SelectSeq(error_history, LAMBDA e : e.screenshot_path # NoPath)
        byScore == [i \in 1..Len(shots) |-> <<shots[i].error_score, shots[i]>>]
        top == Top10(SortDesc(byScore))
    IN [i \in 1..Len(top) |-> top[i][2]]

\* the session_summary of a report: total_errors and major_errors
total_errors == Len(error_history)
major_error_count == Len(major_errors)

\* reset_tracker as it would be without major_errors.clear()
reset_tracker_KeepsMajors ==
    /\ error_history' = <<>>
    /\ error_counts' = <<>>
    /\ major_errors' = major_errors
    /\ session_start_time' = now
    /\ session_id' = now

\* reset_tracker, under the tracker's lock
reset_tracker ==
    /\ error_history' = <<>>
    /\ error_counts' = <<>>
    /\ major_errors' = <<>>
    /\ session_start_time' = now
    /\ session_id' = now

\* start_tracking_endpoint: under tracking_lock, set the flag and reset
StartTracking ==
    /\ tracking_active' = TRUE
    /\ reset_tracker
    /\ cyc' = [l \in Connects |->
                 IF pc[l] \in {"score", "log"} THEN [cyc[l] EXCEPT !.stale = TRUE]
                 ELSE cyc[l]]
    /\ UNCHANGED <<statusVars, smoothVars, callVars, lockVars,
                   bufVars, prodVars, connVars, loopVars, max_mistakes, now, emitted,
                   lastPut, gotExpect, overwrites, drained, takenCount>>

\* stop_tracking_endpoint: under tracking_lock, clear the flag; the report
\* it then builds reads the tracker and changes nothing
StopTracking ==
    /\ tracking_active' = FALSE
    /\ cyc' = [l \in Connects |->
                 IF cyc[l].outcome = "running" THEN [cyc[l] EXCEPT !.active = FALSE]
                 ELSE cyc[l]]
    /\ UNCHANGED <<statusVars, smoothVars, callVars, lockVars,
                   bufVars, prodVars, connVars, loopVars, max_mistakes, error_history,
                   error_counts, major_errors, session_start_time, session_id, now,
                   emitted, lastPut, gotExpect, overwrites, drained, takenCount>>

\* ------------------------------------------------------------ inference_loop
\* The end of an iteration (a continue, the handler's continue, or the end
\* of the try block).  Every local but use3D is assigned in the next
\* iteration before it is read, so its old value is dropped here; use3D is
\* assigned only when a body is found and keeps its value.
EndIteration(l, how) ==
    /\ pc' = [pc EXCEPT ![l] = "top"]
    /\ cur' = [cur EXCEPT ![l] = None]
    /\ det' = [det EXCEPT ![l] = NoDet]
    /\ todo' = [todo EXCEPT ![l] = <<>>]
    /\ current_time' = [current_time EXCEPT ![l] = 0]
    /\ frame_to_save' = [frame_to_save EXCEPT ![l] = FALSE]
    /\ cyc' = [cyc EXCEPT ![l] = CycleEnd(@, how)]

\* the handler as it would be if the emission were outside the try block:
\* its exception ends the thread
Raise_Exits(l, what) ==
    IF what = "emit"
    THEN /\ pc' = [pc EXCEPT ![l] = "exited"]
         /\ UNCHANGED <<cur, det, todo, current_time, frame_to_save, cyc>>
    ELSE EndIteration(l, what)

\* An exception raised inside the try block: `except Exception as e:`
\* prints it and continues.
Raise(l, what) == EndIteration(l, what)

\* `while inference_running:` (the flag is never cleared once a loop
\* runs), then get: `with self.lock:`
GetAcquire(l) ==
    /\ pc[l] = "top"
    /\ inference_running
    /\ lock = Free
    /\ lock' = LId(l)
    /\ pc' = [pc EXCEPT ![l] = "get_read"]
    /\ gotExpect' = [gotExpect EXCEPT ![l] = lastPut]
    /\ UNCHANGED <<statusVars, smoothVars, callVars, lockVars,
                   frame_data, dropped_count, prodVars, connVars, cur, use3D, det,
                   todo, current_time, frame_to_save, count, trackVars, emitted,
                   lastPut, overwrites, drained, takenCount, cyc>>

\* get as a blocking take would do it: it waits for a frame
GetRead_Waits(l) ==
    /\ pc[l] = "get_read"
    /\ frame_data # None
    /\ cur' = [cur EXCEPT ![l] = frame_data]
    /\ pc' = [pc EXCEPT ![l] = "get_clear"]
    /\ UNCHANGED <<statusVars, smoothVars, callVars, lockVars,
                   bufVars, prodVars, connVars, use3D, det, todo, current_time,
                   frame_to_save, count, trackVars, emitted, histVars>>

\* get: `data = self.frame_data`
GetRead(l) ==
    /\ pc[l] = "get_read"
    /\ cur' = [cur EXCEPT ![l] = frame_data]
    /\ pc' = [pc EXCEPT ![l] = "get_clear"]
    /\ UNCHANGED <<statusVars, smoothVars, callVars, lockVars,
                   bufVars, prodVars, connVars, use3D, det, todo, current_time,
                   frame_to_save, count, trackVars, emitted, histVars>>

\* get as a peek would do it: the slot keeps the frame
GetClear_NoClear(l) ==
    /\ pc[l] = "get_clear"
    /\ UNCHANGED frame_data
    /\ lastPut' = None
    /\ lock' = Free
    /\ pc' = [pc EXCEPT ![l] = IF cur[l] = None THEN "top" ELSE "process"]
    /\ gotExpect' = [gotExpect EXCEPT ![l] = None]
    /\ takenCount' = IF cur[l] = None THEN takenCount
                     ELSE [takenCount EXCEPT ![cur[l].sequence] = @ + 1]
    /\ cyc' = IF cur[l] = None THEN cyc
              ELSE [cyc EXCEPT ![l] = [NewCycle EXCEPT !.active = tracking_active]]
    /\ UNCHANGED <<statusVars, smoothVars, callVars, lockVars,
                   dropped_count, prodVars, connVars, cur, use3D, det, todo,
                   current_time, frame_to_save, count, trackVars, emitted, overwrites,
                   drained>>

\* the loop as it would be with a break where the continue on an empty
\* slot is
GetClear_StopsOnEmpty(l) ==
    /\ pc[l] = "get_clear"
    /\ frame_data' = None
    /\ lastPut' = None
    /\ lock' = Free
    /\ pc' = [pc EXCEPT ![l] = IF cur[l] = None THEN "exited" ELSE "process"]
    /\ gotExpect' = [gotExpect EXCEPT ![l] = None]
    /\ takenCount' = IF cur[l] = None THEN takenCount
                     ELSE [takenCount EXCEPT ![cur[l].sequence] = @ + 1]
    /\ cyc' = IF cur[l] = None THEN cyc
              ELSE [cyc EXCEPT ![l] = [NewCycle EXCEPT !.active = tracking_active]]
    /\ UNCHANGED <<statusVars, smoothVars, callVars, lockVars,
                   dropped_count, prodVars, connVars, cur, use3D, det, todo,
                   current_time, frame_to_save, count, trackVars, emitted, overwrites,
                   drained>>

\* get: `self.frame_data = None; return data` and the end of the with
\* block; then `if frame_data is None: time.sleep(0.001); continue`,
\* otherwise the try block is entered.
GetClear(l) ==
    /\ pc[l] = "get_clear"
    /\ frame_data' = None
    /\ lastPut' = None
    /\ lock' = Free
    /\ pc' = [pc EXCEPT ![l] = IF cur[l] = None THEN "top" ELSE "process"]
    /\ gotExpect' = [gotExpect EXCEPT ![l] = None]
    /\ takenCount' = IF cur[l] = None THEN takenCount
                     ELSE [takenCount EXCEPT ![cur[l].sequence] = @ + 1]
    /\ cyc' = IF cur[l] = None THEN cyc
              ELSE [cyc EXCEPT ![l] = [NewCycle EXCEPT !.active = tracking_active]]
    /\ UNCHANGED <<statusVars, smoothVars, callVars, lockVars,
                   dropped_count, prodVars, connVars, cur, use3D, det, todo,
                   current_time, frame_to_save, count, trackVars, emitted, overwrites,
                   drained>>

\* b64decode and cv2.imdecode: b64decode raises on a payload that is not
\* base64 text; imdecode gives None for bytes that are no image (and then
\* `if image is None: continue`).
DecodeOutcome(bytes) ==
    CASE bytes = "bad_b64" -> "raise"
      [] bytes = "not_image" -> "none"
      [] OTHER -> "image"

\* use3D after the landmark extraction: it is bound from the frame only
\* inside `if pose_results.pose_landmarks:`
Use3DAfterDetect(l, o) ==
    IF o \in {"body", "body_world"} THEN {cur[l].use3D} ELSE use3D[l]

\* pose_3d_angles is non-empty: a body and its world landmarks were found
\* and `if use3D and pose_results.pose_world_landmarks:` held
HasAngles(l) == det[l] = "body_world" /\ cur[l].use3D

\* The thread-local part of the try block up to the tracking check: decode,
\* downscale, the detectors (outcome o), the landmark extraction,
\* smooth_body, smooth_hands, `if use3D:` and the 3-D smoothing.  Reading
\* use3D while it is unbound raises UnboundLocalError.  The keypoints of a
\* frame are not followed here, only which stages ran: what the smoother
\* holds and returns is followed in SmoothSpec, and nothing else in the
\* loop reads it.
Process(l, o) ==
    /\ pc[l] = "process"
    /\ LET d == DecodeOutcome(cur[l].bytes)
           u == Use3DAfterDetect(l, o)
       IN CASE d = "raise" ->
                  /\ o = "raise"
                  /\ Raise(l, "decode")
                  /\ UNCHANGED use3D
            [] d = "none" ->
                  /\ o = "raise"
                  /\ EndIteration(l, "skipped")
                  /\ UNCHANGED use3D
            [] d = "image" /\ o = "raise" ->
                  /\ Raise(l, "detector")
                  /\ UNCHANGED use3D
            [] d = "image" /\ o # "raise" /\ u = Unbound ->
                  /\ Raise(l, "UnboundLocalError")
                  /\ UNCHANGED use3D
            [] OTHER ->
                  /\ use3D' = [use3D EXCEPT ![l] = u]
                  /\ det' = [det EXCEPT ![l] = o]
                  /\ pc' = [pc EXCEPT ![l] = IF u = {TRUE} THEN "track_check" ELSE "stats"]
                  /\ cyc' = [cyc EXCEPT ![l].smooth3D = (u = {TRUE})]
                  /\ UNCHANGED <<cur, todo, current_time, frame_to_save>>
    /\ UNCHANGED <<statusVars, smoothVars, callVars, lockVars,
                   count, bufVars, prodVars, connVars, trackVars,
                   emitted, lastPut, gotExpect, overwrites, drained, takenCount>>

\* the loop as it would be with the get_stats call inside `if is_tracking:`
TrackCheck_SkipsStats(l) ==
    /\ pc[l] = "track_check"
    /\ pc' = [pc EXCEPT ![l] = IF tracking_active THEN "score" ELSE "emit"]
    /\ cyc' = [cyc EXCEPT ![l].check = IF tracking_active THEN "active" ELSE "inactive"]
    /\ UNCHANGED <<statusVars, smoothVars, callVars, lockVars,
                   cur, use3D, det, todo, current_time, frame_to_save, count, bufVars,
                   prodVars, connVars, trackVars, emitted, lastPut, gotExpect,
                   overwrites, drained, takenCount>>

\* `with tracking_lock: is_tracking = tracking_active` and `if is_tracking:`
TrackCheck(l) ==
    /\ pc[l] = "track_check"
    /\ pc' = [pc EXCEPT ![l] = IF tracking_active THEN "score" ELSE "stats"]
    /\ cyc' = [cyc EXCEPT ![l].check = IF tracking_active THEN "active" ELSE "inactive"]
    /\ UNCHANGED <<statusVars, smoothVars, callVars, lockVars,
                   cur, use3D, det, todo, current_time, frame_to_save, count, bufVars,
                   prodVars, connVars, trackVars, emitted, lastPut, gotExpect,
                   overwrites, drained, takenCount>>

\* the error_scores mock_pose_comparison can return for the angles: one
\* score per joint
ScoreLists == [1..Len(AngleJoints) -> MockScores]
Items(sc) == [i \in 1..Len(AngleJoints) |-> <<AngleJoints[i], sc[i]>>]

\* the scoring as it would be if the comparison scored no joint
Score_Empty(l, sc) ==
    /\ pc[l] = "score"
    /\ todo' = [todo EXCEPT ![l] = <<>>]
    /\ frame_to_save' = [frame_to_save EXCEPT ![l] = FALSE]
    /\ pc' = [pc EXCEPT ![l] = "stats"]
    /\ cyc' = [cyc EXCEPT ![l].scored = 0]
    /\ current_time' = [current_time EXCEPT ![l] = now - session_start_time]
    /\ UNCHANGED <<statusVars, smoothVars, callVars, lockVars,
                   cur, use3D, det, count, bufVars, prodVars,
                   connVars, trackVars, emitted, lastPut, gotExpect, overwrites,
                   drained, takenCount>>

\* mock_pose_comparison (empty for no angles), current_time, max_error
\* and frame_to_save (`image if max_error > 15.0 else None`)
Score(l, sc) ==
    /\ pc[l] = "score"
    /\ LET items == IF HasAngles(l) THEN Items(sc) ELSE <<>> IN
       /\ todo' = [todo EXCEPT ![l] = items]
       /\ frame_to_save' = [frame_to_save EXCEPT ![l] =
              \E i \in 1..Len(items) : items[i][2] > Milli(15)]
       /\ pc' = [pc EXCEPT ![l] = IF items = <<>> THEN "stats" ELSE "log"]
       /\ cyc' = [cyc EXCEPT ![l].scored = Len(items)]
    /\ current_time' = [current_time EXCEPT ![l] = now - session_start_time]
    /\ UNCHANGED <<statusVars, smoothVars, callVars, lockVars,
                   cur, use3D, det, count, bufVars, prodVars,
                   connVars, trackVars, emitted, lastPut, gotExpect, overwrites,
                   drained, takenCount>>

\* one turn of `for joint, score in error_scores.items(): log_error(...)`,
\* with what becomes of the screenshot (w) when the call writes one
LogError(l, w) ==
    /\ pc[l] = "log"
    /\ LET j == Head(todo[l])[1]
           s == Head(todo[l])[2]
           shot == s > Milli(SCREENSHOT_THRESHOLD) /\ frame_to_save[l]
       IN IF w = "raise"
          THEN /\ shot
               /\ Raise(l, "logging")
               /\ UNCHANGED <<error_history, error_counts, major_errors>>
          ELSE /\ w = "unwritten" => shot
               /\ log_error(j, s, current_time[l], cur[l].sequence, frame_to_save[l])
               /\ todo' = [todo EXCEPT ![l] = Tail(@)]
               /\ pc' = [pc EXCEPT ![l] = IF Len(todo[l]) = 1 THEN "stats" ELSE "log"]
               /\ cyc' = [cyc EXCEPT ![l].calls = @ + 1]
               /\ UNCHANGED <<cur, det, current_time, frame_to_save>>
    /\ UNCHANGED <<statusVars, smoothVars, callVars, lockVars,
                   use3D, count, bufVars, prodVars, connVars,
                   tracking_active, max_mistakes, session_start_time, session_id, now,
                   emitted, lastPut, gotExpect, overwrites, drained, takenCount>>

\* get_stats: `with self.lock:`
StatsAcquire(l) ==
    /\ pc[l] = "stats"
    /\ lock = Free
    /\ lock' = LId(l)
    /\ pc' = [pc EXCEPT ![l] = "stats_read"]
    /\ UNCHANGED <<statusVars, smoothVars, callVars, lockVars,
                   frame_data, dropped_count, prodVars, connVars, cur, use3D, det,
                   todo, current_time, frame_to_save, count, trackVars, emitted,
                   histVars>>

\* get_stats with its two statements swapped: the counter is read after
\* it was zeroed
StatsRead_AfterReset(l) ==
    /\ pc[l] = "stats_read"
    /\ count' = [count EXCEPT ![l] = 0]
    /\ pc' = [pc EXCEPT ![l] = "stats_reset"]
    /\ UNCHANGED <<statusVars, smoothVars, callVars, lockVars,
                   bufVars, prodVars, connVars, cur, use3D, det, todo, current_time,
                   frame_to_save, trackVars, emitted, histVars>>

\* get_stats: `count = self.dropped_count`
StatsRead(l) ==
    /\ pc[l] = "stats_read"
    /\ count' = [count EXCEPT ![l] = dropped_count]
    /\ pc' = [pc EXCEPT ![l] = "stats_reset"]
    /\ UNCHANGED <<statusVars, smoothVars, callVars, lockVars,
                   bufVars, prodVars, connVars, cur, use3D, det, todo, current_time,
                   frame_to_save, trackVars, emitted, histVars>>

\* get_stats: `self.dropped_count = 0; return count` and the end of the
\* with block; the value returned is only printed
StatsReset(l) ==
    /\ pc[l] = "stats_reset"
    /\ dropped_count' = 0
    /\ lock' = Free
    /\ pc' = [pc EXCEPT ![l] = "emit"]
    /\ count' = [count EXCEPT ![l] = 0]
    /\ drained' = drained + count[l]
    /\ cyc' = [cyc EXCEPT ![l].stats = @ + 1]
    /\ UNCHANGED <<statusVars, smoothVars, callVars, lockVars,
                   frame_data, prodVars, connVars, cur, use3D, det, todo,
                   current_time, frame_to_save, trackVars,
                   emitted, lastPut, gotExpect, overwrites, takenCount>>

\* the pose_result event built from the loop's locals, without its
\* landmark, angle and timing payload
PoseResult(l) ==
    [sequence |-> cur[l].sequence,
     mode |-> IF use3D[l] = {TRUE} THEN "3D" ELSE "2D",
     tracking_active |-> tracking_active]

\* `with tracking_lock: is_tracking = tracking_active` and socketio.emit,
\* which can fail (ok = FALSE)
Emit(l, ok) ==
    /\ pc[l] = "emit"
    /\ IF ok
       THEN /\ emitted' = PoseResult(l)
            /\ EndIteration(l, "emitted")
       ELSE /\ Raise(l, "emit")
            /\ UNCHANGED emitted
    /\ UNCHANGED <<statusVars, smoothVars, callVars, lockVars,
                   use3D, count, bufVars, prodVars, connVars,
                   trackVars, lastPut, gotExpect, overwrites, drained, takenCount>>

\* ------------------------------------------------------------ specification
ProducerStep(p) ==
    \/ \E k \in FrameKinds : HandleFrame(p, k[1], k[2])
    \/ PutCheck(p)
    \/ PutStore(p)

ConnectStep(c) ==
    \/ ConnectCheck(c)
    \/ ConnectStart(c)

LoopStep(l) ==
    \/ GetAcquire(l)
    \/ GetRead(l)
    \/ GetClear(l)
    \/ \E o \in DetectOutcomes : Process(l, o)
    \/ TrackCheck(l)
    \/ \E sc \in ScoreLists : Score(l, sc)
    \/ \E w \in WriteOutcomes : LogError(l, w)
    \/ StatsAcquire(l)
    \/ StatsRead(l)
    \/ StatsReset(l)
    \/ \E ok \in BOOLEAN : Emit(l, ok)

Next ==
    \/ \E p \in Producers : ProducerStep(p)
    \/ \E c \in Connects : ConnectStep(c)
    \/ \E l \in Connects : LoopStep(l)
    \/ StartTracking
    \/ StopTracking

Spec == Init /\ [][Next]_vars

\* The threads keep running: a started loop takes its next step if it can
\* (weak fairness suffices for the claim: a loop waits only for the buffer
\* lock), and a put that holds the lock finishes.
Fairness ==
    /\ \A l \in Connects : WF_vars(LoopStep(l))
    /\ \A p \in Producers : WF_vars(PutCheck(p) \/ PutStore(p))

LiveSpec == Init /\ [][Next]_vars /\ Fairness

\* ------------------------------------------------- the tracker on its own
\* The MistakeTracker driven through its own operations, one caller at a
\* time (every operation runs under the tracker's lock): log_error calls
\* with any joint, score and image, and resets.  Only the tracker and the
\* clock change.  One second passes per log_error call; the caller passes
\* the time since the session started and the frame number, as the
\* inference loop does.
MaxLogs == 3          \* log_error calls over the run
MaxMistakes == 2      \* capacity of the small tracker
PreLogged == 9        \* major errors already logged in the long session

Joints == {"left_elbow", "right_knee"}
\* scores at, just above and well above the two thresholds
Scores == {Milli(5), 5004, Milli(15), 15004, Milli(20)}

\* the long session: the entries of PreLogged log_error calls, one per
\* second, all major and with an image, with two scores in turn
PreEntries ==
    [i \in 1..PreLogged |->
        ErrorEntry("left_elbow", IF i % 2 = 0 THEN Milli(20) ELSE Milli(30), i - 1, i, TRUE)]

\* A tracker of capacity MaxMistakes just constructed, or the program's
\* tracker (capacity 1000) PreLogged calls into a session.
TrackerInit ==
    /\ frame_data = None
    /\ dropped_count = 0
    /\ lock = Free
    /\ ppc = [p \in Producers |-> "idle"]
    /\ parg = [p \in Producers |-> None]
    /\ nextSeq = 0
    /\ cpc = [c \in Connects |-> "idle"]
    /\ inference_running = FALSE
    /\ pc = [l \in Connects |-> "off"]
    /\ cur = [l \in Connects |-> None]
    /\ use3D = [l \in Connects |-> Unbound]
    /\ det = [l \in Connects |-> NoDet]
    /\ todo = [l \in Connects |-> <<>>]
    /\ current_time = [l \in Connects |-> 0]
    /\ frame_to_save = [l \in Connects |-> FALSE]
    /\ count = [l \in Connects |-> 0]
    /\ tracking_active = FALSE
    /\ now = PreLogged
    /\ session_id = 0
    /\ \/ /\ max_mistakes = MaxMistakes
          /\ session_start_time = PreLogged
          /\ error_history = <<>>
          /\ error_counts = <<>>
          /\ major_errors = <<>>
       \/ /\ max_mistakes = 1000
          /\ session_start_time = 0
          /\ error_history = PreEntries
          /\ error_counts = << <<"left_elbow", PreLogged>> >>
          /\ major_errors = PreEntries
    /\ emitted = NoEvent
    /\ lastPut = None
    /\ gotExpect = [l \in Connects |-> None]
    /\ overwrites = 0
    /\ drained = 0
    /\ takenCount = [n \in 1..MaxPuts |-> 0]
    /\ cyc = [l \in Connects |-> NewCycle]
    /\ StatusInit
    /\ SmoothInit
    /\ CallInit
    /\ LockInit

\* mistake_tracker.log_error(joint, score, current_time, sequence, frame_image)
LogErrorCall(joint, score, img, w) ==
    /\ now < PreLogged + MaxLogs
    /\ w # "written" => (score > Milli(SCREENSHOT_THRESHOLD) /\ img)
    /\ IF w = "raise"
       THEN UNCHANGED <<error_history, error_counts, major_errors>>
       ELSE log_error(joint, score, now - session_start_time, now + 1, img)
    /\ now' = now + 1
    /\ UNCHANGED <<statusVars, smoothVars, callVars, lockVars,
                   bufVars, prodVars, connVars, loopVars, tracking_active,
                   max_mistakes, session_start_time, session_id, emitted, histVars>>

\* reset_mistakes_endpoint as it would be if it also stopped the tracking
ResetCall_Stops ==
    /\ reset_tracker
    /\ tracking_active' = FALSE
    /\ UNCHANGED <<statusVars, smoothVars, callVars, lockVars,
                   bufVars, prodVars, connVars, loopVars,
                   max_mistakes, now, emitted, histVars>>

\* reset_mistakes_endpoint: mistake_tracker.reset_tracker()
ResetCall ==
    /\ reset_tracker
    /\ UNCHANGED <<statusVars, smoothVars, callVars, lockVars,
                   bufVars, prodVars, connVars, loopVars, tracking_active,
                   max_mistakes, now, emitted, histVars>>

TrackerNext ==
    \/ \E j \in Joints, sc \in Scores, img \in BOOLEAN, w \in WriteOutcomes :
          LogErrorCall(j, sc, img, w)
    \/ ResetCall

TrackerSpec == TrackerInit /\ [][TrackerNext]_vars

\* ---------------------------------------------------------------- properties
Started(l) == pc[l] # "off"
InPut(p) == ppc[p] \in {"put_check", "put_store"}
InGet(l) == pc[l] \in {"get_read", "get_clear"}
InStats(l) == pc[l] \in {"stats_read", "stats_reset"}
Failures == StageFailures \cup {"UnboundLocalError"}

\* C1 (latest-wins).  Whenever no put is in progress the slot holds exactly
\* the frame (all four fields) of the put that took the lock last since the
\* last get, or nothing if there was none; a get returns that frame; and
\* the drops counted so far are exactly the puts that found the slot
\* occupied.
C1_LatestWins ==
    /\ (\A p \in Producers : ~InPut(p)) => frame_data = lastPut
    /\ \A l \in Connects : pc[l] = "get_clear" => cur[l] = gotExpect[l]
    /\ ((\A p \in Producers : ~InPut(p)) /\ (\A l \in Connects : ~InStats(l)))
          => dropped_count + drained = overwrites

\* two puts with no get between them, then a get that returns the second
\* frame, with one drop counted
C1_Witness ==
    \E l \in Connects :
       /\ pc[l] = "get_clear"
       /\ cur[l] # None
       /\ cur[l].sequence = 2
       /\ takenCount[1] = 0
       /\ dropped_count + drained = 1

\* C2 (get removes).  No frame is returned by more than one get; when a get
\* returns, the slot is empty; and a get that no put preceded since the
\* previous get returns None.
C2_GetRemoves ==
    /\ [](\A n \in 1..MaxPuts : takenCount[n] <= 1)
    /\ [](\A l \in Connects : (pc[l] = "get_clear" /\ gotExpect[l] = None) => cur[l] = None)
    /\ [][\A l \in Connects :
            (pc[l] = "get_clear" /\ pc'[l] # "get_clear") => frame_data' = None]_vars

\* a frame has been returned by a get, and a later get finds nothing
C2_Witness ==
    \E l \in Connects :
       /\ pc[l] = "get_clear"
       /\ cur[l] = None
       /\ \E n \in 1..MaxPuts : takenCount[n] = 1

C4_OneLoop == Cardinality({l \in Connects : Started(l)}) <= 1

\* C5 (the loop never exits).  A started loop is always at a position of
\* its while loop, and once an iteration has ended, by an exception or
\* otherwise, the loop is back at polling the buffer.
LoopPositions ==
    {"top", "get_read", "get_clear", "process", "track_check", "score", "log",
     "stats", "stats_read", "stats_reset", "emit"}
C5_LoopNeverExits ==
    \A l \in Connects :
       /\ Started(l) => pc[l] \in LoopPositions
       /\ cyc[l].outcome # "running" => pc[l] \in {"top", "get_read", "get_clear"}

\* a loop that caught an exception in its last iteration on a frame takes
\* the next frame
C5_Witness ==
    \E l \in Connects :
       /\ cyc[l].outcome \in Failures
       /\ pc[l] = "get_clear"
       /\ cur[l] # None

\* C6 (one emission per image).  An iteration on a frame that decoded to an
\* image, in which no collaborator raised, ends with its pose_result
\* emitted.
C6_ImageEmits ==
    \A l \in Connects :
       (cyc[l].outcome \notin {"running", "skipped", "decode"} \cup StageFailures)
          => cyc[l].outcome = "emitted"

\* C7 (event matches its frame).  The event a loop is about to emit carries
\* its frame's sequence number and says '3D' iff that frame's use3D is
\* true; the 3-D smoothing has run iff the frame's use3D is true, and error
\* scoring runs only for such a frame.
C7_EventMatchesFrame ==
    \A l \in Connects :
       /\ pc[l] = "emit" =>
             /\ PoseResult(l).sequence = cur[l].sequence
             /\ (PoseResult(l).mode = "3D") = cur[l].use3D
       /\ pc[l] \in {"track_check", "score", "log"} => cur[l].use3D
       /\ pc[l] \in {"stats", "stats_read", "stats_reset", "emit"} =>
             cyc[l].smooth3D = cur[l].use3D

\* C8 (no blocking).  The lock is held only by a thread inside put, get or
\* get_stats, such a thread holds it, and it can always take its next step:
\* a get inside the lock finishes whatever the slot holds, and a loop at
\* the top of its iteration enters get as soon as the lock is free.
C8_NoBlocking ==
    /\ \A p \in Producers : InPut(p) <=> lock = PId(p)
    /\ \A l \in Connects : (InGet(l) \/ InStats(l)) <=> lock = LId(l)
    /\ \A p \in Producers : InPut(p) => ENABLED (PutCheck(p) \/ PutStore(p))
    /\ \A l \in Connects : InGet(l) => ENABLED (GetRead(l) \/ GetClear(l))
    /\ \A l \in Connects : InStats(l) => ENABLED (StatsRead(l) \/ StatsReset(l))
    /\ \A l \in Connects : (pc[l] = "top" /\ lock = Free) => ENABLED GetAcquire(l)

\* a get on a slot nothing was ever put into is about to return None
C8_Witness ==
    \E l \in Connects :
       /\ pc[l] = "get_clear"
       /\ cur[l] = None
       /\ nextSeq = 0

\* C9 (the hand-off is live).  Once a loop is started, a frame in the slot
\* is eventually returned by a get or replaced by a later put.
C9_FrameLeaves ==
    \A n \in 1..MaxPuts :
       ((frame_data # None /\ frame_data.sequence = n /\ \E l \in Connects : Started(l))
           ~> (takenCount[n] = 1 \/ (frame_data # None /\ frame_data.sequence # n)))

\* a started loop holds a frame it took from the slot
C9_Witness ==
    \E l \in Connects : pc[l] = "process" /\ cur[l] # None /\ frame_data = None

\* C10 as claimed.  An iteration that emitted called get_stats exactly
\* once, and an iteration that ended in any other way did not call it.
C10_Claimed ==
    \A l \in Connects :
       /\ cyc[l].outcome = "emitted" => cyc[l].stats = 1
       /\ cyc[l].outcome \notin {"running", "emitted"} => cyc[l].stats = 0

\* C10 amended.  An iteration calls get_stats exactly once before it emits,
\* and the call leaves the counter at zero; an iteration that is skipped,
\* or fails before the emission, has not called it; one that fails in the
\* emission has called it once.
C10_StatsOncePerEmit ==
    /\ [](\A l \in Connects :
            /\ pc[l] = "emit" => cyc[l].stats = 1
            /\ cyc[l].outcome \in {"emitted", "emit"} => cyc[l].stats = 1
            /\ cyc[l].outcome \in {"skipped"} \cup (Failures \ {"emit"}) => cyc[l].stats = 0
            /\ (cyc[l].outcome = "running" /\ pc[l] # "emit") => cyc[l].stats = 0)
    /\ [][\A l \in Connects :
            (pc[l] = "stats_reset" /\ pc'[l] = "emit") => dropped_count' = 0]_vars

\* an iteration has emitted after a get_stats call that returned a drop
C10_Witness ==
    \E l \in Connects :
       /\ cyc[l].outcome = "emitted"
       /\ cyc[l].stats = 1
       /\ drained >= 1

\* C11 as claimed (nothing is recorded while inactive).  A step that starts
\* and ends with tracking inactive leaves the tracker's history, counts and
\* major-errors list as they are, so a report after the stop shows the
\* total the stop's report showed.
C11_NoLogWhileInactive ==
    [][(~tracking_active /\ ~tracking_active')
          => /\ error_history' = error_history
             /\ error_counts' = error_counts
             /\ major_errors' = major_errors]_vars

\* what is past the smoothing stage in an iteration
AfterSmoothing == {"stats", "stats_read", "stats_reset", "emit"}
\* the number of joints mock_pose_comparison scores in the loop's iteration
JointsScored(l) == IF HasAngles(l) THEN Len(AngleJoints) ELSE 0

\* C12 as claimed.  An iteration that emits its result, during all of
\* which tracking was active, has performed the error scoring.
C12_Claimed ==
    [][\A l \in Connects :
         (pc[l] = "emit" /\ cyc'[l].outcome = "emitted" /\ cyc[l].active)
            => cyc[l].check = "active"]_vars

\* C12 amended.  The tracking check runs exactly in the iterations whose
\* 3-D branch runs, and reads tracking_active; an iteration whose check read
\* active scores every joint it has an angle for and, once past the
\* logging, has called log_error once for each of them; an iteration
\* without the 3-D branch, or whose check read inactive, scores and logs
\* nothing.
C12_ActiveScores3D ==
    /\ [](\A l \in Connects :
            /\ pc[l] \in {"score", "log"} => cyc[l].check = "active"
            /\ pc[l] = "log" =>
                  /\ cyc[l].scored = JointsScored(l)
                  /\ cyc[l].calls + Len(todo[l]) = cyc[l].scored
            /\ pc[l] \in AfterSmoothing =>
                  /\ (cyc[l].check # "none") = cyc[l].smooth3D
                  /\ cyc[l].check = "active" =>
                        /\ cyc[l].scored = JointsScored(l)
                        /\ cyc[l].calls = cyc[l].scored
                  /\ cyc[l].check # "active" => (cyc[l].scored = 0 /\ cyc[l].calls = 0))
    /\ [][\A l \in Connects :
            (pc[l] = "track_check" /\ pc'[l] # "track_check")
               => (cyc'[l].check = "active") = tracking_active]_vars

\* an iteration whose check read active is about to emit, after a
\* log_error call for its scored joint
C12_Witness ==
    \E l \in Connects :
       /\ pc[l] = "emit"
       /\ cyc[l].check = "active"
       /\ cyc[l].calls = 1
       /\ cyc[l].active

\* C13 as claimed (a start begins a clean session).  A log_error call of an
\* iteration whose tracking check came before the latest start's reset adds
\* nothing to the history.
C13_CleanSession ==
    [][\A l \in Connects :
         (pc[l] = "log" /\ cyc[l].stale /\ todo'[l] # todo[l])
            => error_history' = error_history]_vars

\* the entries a sequence holds but for its last
Front(q) == SubSeq(q, 1, Len(q) - 1)
\* the qualifying log_error calls of the session, from the counts
RECURSIVE SumCounts(_)
SumCounts(counts) ==
    IF counts = <<>> THEN 0 ELSE Head(counts)[2] + SumCounts(Tail(counts))

\* C14 (the logging threshold).  A log_error call that returns, with a
\* score above 5.0, has appended exactly one entry, the call's, at the end of the
\* history and added 1 to the count of the call's joint and of no other; a
\* call with a score of at most 5.0 leaves history, counts and major-errors
\* list as they are.
C14_LogsAboveThreshold ==
    [][\A j \in Joints, sc \in Scores, img \in BOOLEAN, w \in {"written", "unwritten"} :
         LogErrorCall(j, sc, img, w) =>
            IF sc > 5000
            THEN /\ error_history' # <<>>
                 /\ \/ Front(error_history') = error_history
                    \/ /\ error_history # <<>>
                       /\ Front(error_history') = Tail(error_history)
                 /\ error_history'[Len(error_history')].joint = j
                 /\ error_history'[Len(error_history')].frame = now + 1
                 /\ CountOf(error_counts', j) = CountOf(error_counts, j) + 1
                 /\ \A k \in Joints \ {j} :
                       CountOf(error_counts', k) = CountOf(error_counts, k)
                 /\ SumCounts(error_counts') = SumCounts(error_counts) + 1
            ELSE /\ error_history' = error_history
                 /\ error_counts' = error_counts
                 /\ major_errors' = major_errors]_vars

\* of three calls in the session of the small tracker, two were above the
\* threshold, both for one joint
C14_Witness ==
    /\ max_mistakes = MaxMistakes
    /\ session_start_time = PreLogged
    /\ now = PreLogged + 3
    /\ error_counts = << <<"left_elbow", 2>> >>
    /\ Len(error_history) = 2

\* the entries of a sequence, as a set
Range(q) == {q[i] : i \in 1..Len(q)}

\* C15 as claimed.  Every entry of the major-errors list has a screenshot
\* reference and a score above 15, and every entry of the history that has
\* a screenshot reference is in the major-errors list.
C15_Claimed ==
    /\ \A e \in Range(major_errors) :
          e.screenshot_path # NoPath /\ e.error_score > 15000
    /\ \A e \in Range(error_history) :
          e.screenshot_path # NoPath => e \in Range(major_errors)

\* C15 amended.  The entry a returning log_error call records has a
\* screenshot reference, and is appended to the major-errors list, iff the
\* call's score exceeds 15.0 and an image was passed; the entry holds the
\* score rounded to hundredths.  Hence every entry of the major-errors list
\* has a screenshot reference and a recorded score of at least 15.0, and
\* every entry of the history with a screenshot reference is in the
\* major-errors list.
C15_MajorIffScreenshot ==
    /\ [](/\ \A e \in Range(major_errors) :
               e.screenshot_path # NoPath /\ e.error_score >= 15000
          /\ \A e \in Range(error_history) :
               e.screenshot_path # NoPath => e \in Range(major_errors))
    /\ [][\A j \in Joints, sc \in Scores, img \in BOOLEAN, w \in {"written", "unwritten"} :
            (LogErrorCall(j, sc, img, w) /\ sc > 5000) =>
               LET e == error_history'[Len(error_history')] IN
               /\ (e.screenshot_path # NoPath) = (sc > 15000 /\ img)
               /\ e.error_score % 10 = 0
               /\ e.error_score - sc \in -5..5
               /\ major_errors' = IF sc > 15000 /\ img
                                  THEN Append(major_errors, e) ELSE major_errors]_vars

\* the small tracker holds a major error recorded with the score 15.0
\* next to an entry with that score and no screenshot
C15_Witness ==
    /\ max_mistakes = MaxMistakes
    /\ \E e \in Range(major_errors) : e.error_score = 15000 /\ e \in Range(error_history)
    /\ \E e \in Range(error_history) : e.error_score = 15000 /\ e.screenshot_path = NoPath

\* C16 as claimed (a failed screenshot does not lose the entry).  When the
\* screenshot of a major error is not persisted, because the write fails
\* or raises, the log_error call returns having appended the entry to the
\* history, without a screenshot reference, and counted it, and the loop
\* goes on with the joints that remain.
C16_FailedShotKeepsEntry ==
    [][\A l \in Connects, w \in {"unwritten", "raise"} :
         LogError(l, w) =>
            /\ Len(error_history') = Len(error_history) + 1
            /\ error_history'[Len(error_history')].screenshot_path = NoPath
            /\ SumCounts(error_counts') = SumCounts(error_counts) + 1
            /\ cyc'[l].outcome = "running"
            /\ todo'[l] = Tail(todo[l])]_vars

\* the smaller of two numbers
Min(a, b) == IF a <= b THEN a ELSE b
\* the last n entries of a sequence (all of them if it has fewer)
LastN(q, n) == SubSeq(q, Len(q) - Min(Len(q), n) + 1, Len(q))

\* C17 (history bounding).  The history never holds more than max_mistakes
\* entries; it holds as many as were logged in the session, up to
\* max_mistakes; its entries are in log order; and a qualifying call turns
\* it into the last max_mistakes entries of the old history followed by the
\* call's entry, so that after any number of calls it is the last
\* max_mistakes entries logged.
C17_HistoryBounded ==
    /\ [](/\ Len(error_history) <= max_mistakes
          /\ Len(error_history) = Min(SumCounts(error_counts), max_mistakes)
          /\ \A i \in 1..(Len(error_history) - 1) :
                error_history[i].frame < error_history[i + 1].frame)
    /\ [][\A j \in Joints, sc \in Scores, img \in BOOLEAN, w \in {"written", "unwritten"} :
            (LogErrorCall(j, sc, img, w) /\ sc > 5000) =>
               /\ error_history' # <<>>
               /\ error_history'[Len(error_history')].frame = now + 1
               /\ error_history' =
                     LastN(Append(error_history, error_history'[Len(error_history')]),
                           max_mistakes)]_vars

\* one more qualifying call than the small tracker's capacity: the history
\* is full and its first entry is not the session's first
C17_Witness ==
    /\ max_mistakes = MaxMistakes
    /\ SumCounts(error_counts) = MaxMistakes + 1
    /\ Len(error_history) = MaxMistakes
    /\ error_history[1].timestamp > 0

\* C18 as claimed (worst moments come from the major-errors list).  The
\* worst moments of a report are the ten entries of the session's
\* major-errors list with the highest scores, whether or not the history
\* still holds them.
C18_WorstFromMajors ==
    error_history # <<>> =>
       LET byScore == [i \in 1..Len(major_errors) |->
                          <<major_errors[i].error_score, major_errors[i]>>]
           top == Top10(SortDesc(byScore))
       IN worst_moments = [i \in 1..Len(top) |-> top[i][2]]

\* the counts a report lists, summed
RECURSIVE SumListed(_)
SumListed(fr) == IF fr = <<>> THEN 0 ELSE Head(fr).count + SumListed(Tail(fr))

\* C19 as claimed (frequent mistakes).  A non-empty report lists at most
\* ten joints, by count in non-increasing order, each with its share of
\* total_errors in percent; the counts listed add up to at most
\* total_errors and no share exceeds 100 percent.
C19_FrequentShares ==
    error_history # <<>> =>
       /\ Len(frequent_report) <= 10
       /\ \A i \in 1..(Len(frequent_report) - 1) :
             frequent_report[i].count >= frequent_report[i + 1].count
       /\ \A i \in 1..Len(frequent_report) :
             /\ frequent_report[i].count = CountOf(error_counts, frequent_report[i].joint)
             /\ frequent_report[i].percentage <= 1000
       /\ SumListed(frequent_report) <= total_errors

\* the entries of the history that have a screenshot, and the place of an
\* entry in the history (the entries differ in their frame numbers)
WithShot == {e \in Range(error_history) : e.screenshot_path # NoPath}
Place(e) == CHOOSE i \in 1..Len(error_history) : error_history[i] = e

\* C20 (worst moments).  The worst moments of a report are entries of the
\* history with a screenshot, each once, ten of them or all if there are
\* fewer; their scores do not increase along the list; of two with the
\* same score the one logged first comes first; and an entry with a
\* screenshot that is left out has a score no higher than any listed, and
\* was logged after every listed entry with its score.
C20_WorstMoments ==
    LET W == worst_moments IN
    /\ Range(W) \subseteq WithShot
    /\ Cardinality(Range(W)) = Len(W)
    /\ Len(W) = Min(10, Cardinality(WithShot))
    /\ \A i \in 1..Len(W), k \in 1..Len(W) :
          i < k => /\ W[i].error_score >= W[k].error_score
                   /\ W[i].error_score = W[k].error_score => Place(W[i]) < Place(W[k])
    /\ \A e \in WithShot \ Range(W) : \A i \in 1..Len(W) :
          /\ W[i].error_score >= e.error_score
          /\ W[i].error_score = e.error_score => Place(W[i]) < Place(e)

\* the history holds more than ten entries with a screenshot and one
\* without; two neighbours in the list have the same score
C20_Witness ==
    /\ Cardinality(WithShot) > 10
    /\ Len(error_history) > Cardinality(WithShot)
    /\ Len(worst_moments) = 10
    /\ \E i \in 1..9 : worst_moments[i].error_score = worst_moments[i + 1].error_score

\* ------------------------------------------------------------- the report
\* the joints _get_improvement_suggestion has a text of their own for
SuggestionJoints ==
    {"left_elbow", "right_elbow", "left_knee", "right_knee",
     "left_shoulder", "right_shoulder", "left_hip", "right_hip"}

\* suggestions.get(joint_name, f"Pay attention to {joint_name...} positioning.")
BaseSuggestion(joint_name) ==
    IF joint_name \in SuggestionJoints THEN <<"suggestions", joint_name>>
    ELSE <<"Pay attention to", joint_name>>

\* _get_improvement_suggestion as it would be with `>=` in its two tests
get_improvement_suggestion_AtLeast(joint_name, error_score) ==
    IF error_score >= Milli(25)
    THEN [severity |-> "CRITICAL", text |-> BaseSuggestion(joint_name)]
    ELSE IF error_score >= Milli(15)
    THEN [severity |-> "IMPORTANT", text |-> BaseSuggestion(joint_name)]
    ELSE [severity |-> "", text |-> BaseSuggestion(joint_name)]

\* _get_improvement_suggestion: the text for the joint, with the prefix
\* the score selects ("" for the text on its own)
get_improvement_suggestion(joint_name, error_score) ==
    IF error_score > Milli(25)
    THEN [severity |-> "CRITICAL", text |-> BaseSuggestion(joint_name)]
    ELSE IF error_score > Milli(15)
    THEN [severity |-> "IMPORTANT", text |-> BaseSuggestion(joint_name)]
    ELSE [severity |-> "", text |-> BaseSuggestion(joint_name)]

\* f"{int(ts // 60)}:{int(ts % 60):02d}", the timestamp being in seconds
TimeFormatted(ts) == <<ts \div 60, ts % 60>>

\* worst_report: the worst moments as the report shows them
worst_report ==
    [i \in 1..Len(worst_moments) |->
        LET item == worst_moments[i] IN
        [joint |-> item.joint, error_score |-> item.error_score,
         timestamp |-> item.timestamp, frame |-> item.frame,
         screenshot |-> item.screenshot_path,
         time_formatted |-> TimeFormatted(item.timestamp),
         suggestion |-> get_improvement_suggestion(item.joint, item.error_score)]]

\* ------------------------------------------------------------ the session
\* The tracker behind the administrative endpoints, one request at a time:
\* start, stop and reset, the clock, and log_error calls as the inference
\* loop makes them for a joint of a frame (its tracking check can be
\* stale, so in either tracking state).  The program starts as in Init, the
\* tracker constructed at import.  The frame number is the client's: two
\* clients number their frames alike, and each of the two inference loops
\* a double connect starts scores a frame that both got.
MaxTime == 2          \* seconds that pass over the run
MaxEntries == 3       \* entries logged into one session

\* the log_error calls made, as <<joint, score, frame number, image
\* passed>>: a minor error, major errors at and between the bands of the
\* suggestion, and a joint without a text of its own scored twice for
\* one frame
SessionCalls ==
    { <<"left_elbow", Milli(20), 1, TRUE>>, <<"left_elbow", Milli(8), 2, FALSE>>,
      <<"right_knee", Milli(30), 3, TRUE>>, <<"right_knee", Milli(25), 1, TRUE>>,
      <<"left_wrist", 15004, 2, TRUE>>, <<"left_wrist", 15900, 2, TRUE>> }

\* time passes
Tick ==
    /\ now < MaxTime
    /\ now' = now + 1
    /\ UNCHANGED <<statusVars, smoothVars, callVars, lockVars,
                   bufVars, prodVars, connVars, loopVars, tracking_active,
                   max_mistakes, error_history, error_counts, major_errors,
                   session_start_time, session_id, emitted, histVars>>

\* mistake_tracker.log_error(joint, score, current_time, sequence, frame)
\* of the inference loop, the screenshot written
LogCall(joint, score, seq, img) ==
    /\ Len(error_history) < MaxEntries
    /\ log_error(joint, score, now - session_start_time, seq, img)
    /\ UNCHANGED <<statusVars, smoothVars, callVars, lockVars,
                   bufVars, prodVars, connVars, loopVars, tracking_active,
                   max_mistakes, session_start_time, session_id, now, emitted,
                   histVars>>

SessionNext ==
    \/ Tick
    \/ StartTracking
    \/ StopTracking
    \/ ResetCall
    \/ \E c \in SessionCalls : LogCall(c[1], c[2], c[3], c[4])

SessionSpec == Init /\ [][SessionNext]_vars

\* C21: every worst moment of the report carries the suggestion for its
\* joint (the generic text for a joint without one of its own), prefixed
\* CRITICAL when its recorded score is above 25 degrees, IMPORTANT when it
\* is above 15 and at most 25, and not prefixed when it is at most 15.
C21_SuggestionBands ==
    \A i \in 1..Len(worst_report) :
        LET w == worst_report[i] IN
        /\ w.suggestion.text = BaseSuggestion(w.joint)
        /\ w.suggestion.severity =
             (CASE w.error_score > Milli(25) -> "CRITICAL"
                [] w.error_score > Milli(15) /\ w.error_score <= Milli(25) -> "IMPORTANT"
                [] OTHER -> "")

\* C21 as stated: CRITICAL from 25 degrees on, IMPORTANT from 15 degrees on
\* and below 25, not prefixed otherwise
C21_Claimed ==
    \A i \in 1..Len(worst_report) :
        LET w == worst_report[i] IN
        w.suggestion.severity =
             (CASE w.error_score >= Milli(25) -> "CRITICAL"
                [] w.error_score >= Milli(15) /\ w.error_score < Milli(25) -> "IMPORTANT"
                [] OTHER -> "")

\* a report whose worst moments are one of each kind: above 25, exactly 25,
\* and exactly 15 on a joint without a text of its own
C21_Witness ==
    /\ Len(worst_report) = 3
    /\ worst_report[1].error_score > Milli(25)
    /\ worst_report[2].error_score = Milli(25)
    /\ worst_report[3].error_score = Milli(15)
    /\ worst_report[3].joint \notin SuggestionJoints

\* ---------------------------------------------------------------- the grade
\* sum(e['error_score'] for e in self.error_history)
RECURSIVE SumScores(_)
SumScores(q) == IF q = <<>> THEN 0 ELSE q[1].error_score + SumScores(Tail(q))

\* avg_error, in thousandths of a degree and rounded down: it is only
\* compared with whole degrees by `<`, which the rounding down preserves
avg_error == SumScores(error_history) \div Len(error_history)

\* _calculate_grade as it would be without the tests on the major errors
calculate_grade_AvgOnly(avg, major) ==
    IF avg < Milli(5) THEN "A+ Excellent!"
    ELSE IF avg < Milli(8) THEN "A Great performance!"
    ELSE IF avg < Milli(10) THEN "B+ Good work!"
    ELSE IF avg < Milli(12) THEN "B Nice effort!"
    ELSE IF avg < Milli(15) THEN "C+ Keep practicing!"
    ELSE "C Room for improvement!"

\* _calculate_grade as it would be with `<=` in its first row
calculate_grade_AtMostFive(avg, major) ==
    IF major = 0 /\ avg <= Milli(5) THEN "A+ Excellent!"
    ELSE IF major <= 2 /\ avg < Milli(8) THEN "A Great performance!"
    ELSE IF major <= 5 /\ avg < Milli(10) THEN "B+ Good work!"
    ELSE IF major <= 8 /\ avg < Milli(12) THEN "B Nice effort!"
    ELSE IF major <= 12 /\ avg < Milli(15) THEN "C+ Keep practicing!"
    ELSE "C Room for improvement!"

\* _calculate_grade
calculate_grade(avg, major) ==
    IF major = 0 /\ avg < Milli(5) THEN "A+ Excellent!"
    ELSE IF major <= 2 /\ avg < Milli(8) THEN "A Great performance!"
    ELSE IF major <= 5 /\ avg < Milli(10) THEN "B+ Good work!"
    ELSE IF major <= 8 /\ avg < Milli(12) THEN "B Nice effort!"
    ELSE IF major <= 12 /\ avg < Milli(15) THEN "C+ Keep practicing!"
    ELSE "C Room for improvement!"

\* the performance_grade of the report
performance_grade ==
    IF error_history = <<>> THEN "Perfect!"
    ELSE calculate_grade(avg_error, major_error_count)

\* A small tracker deep into a session: its history full of entries
\* without a screenshot (no image was passed) and up to MaxMajors major
\* errors logged before them, all in the second before; then log_error
\* calls and resets as before.
MaxMajors == 13       \* major errors logged before the history filled
GradeScores == {5004, Milli(8), Milli(12), Milli(20)}

GradeInit ==
    /\ frame_data = None
    /\ dropped_count = 0
    /\ lock = Free
    /\ ppc = [p \in Producers |-> "idle"]
    /\ parg = [p \in Producers |-> None]
    /\ nextSeq = 0
    /\ cpc = [c \in Connects |-> "idle"]
    /\ inference_running = FALSE
    /\ pc = [l \in Connects |-> "off"]
    /\ cur = [l \in Connects |-> None]
    /\ use3D = [l \in Connects |-> Unbound]
    /\ det = [l \in Connects |-> NoDet]
    /\ todo = [l \in Connects |-> <<>>]
    /\ current_time = [l \in Connects |-> 0]
    /\ frame_to_save = [l \in Connects |-> FALSE]
    /\ count = [l \in Connects |-> 0]
    /\ tracking_active = FALSE
    /\ now = PreLogged
    /\ session_id = 0
    /\ session_start_time = 0
    /\ max_mistakes = MaxMistakes
    /\ \E n \in 0..MaxMajors, h \in [1..MaxMistakes -> GradeScores] :
          /\ major_errors =
               [i \in 1..n |-> ErrorEntry("left_elbow", Milli(20), PreLogged - 1, i, TRUE)]
          /\ error_history =
               [i \in 1..MaxMistakes |->
                   ErrorEntry("right_knee", h[i], PreLogged - 1, n + i, FALSE)]
          /\ error_counts =
               IF n = 0 THEN << <<"right_knee", MaxMistakes>> >>
               ELSE << <<"left_elbow", n>>, <<"right_knee", MaxMistakes>> >>
    /\ emitted = NoEvent
    /\ lastPut = None
    /\ gotExpect = [l \in Connects |-> None]
    /\ overwrites = 0
    /\ drained = 0
    /\ takenCount = [n \in 1..MaxPuts |-> 0]
    /\ cyc = [l \in Connects |-> NewCycle]
    /\ StatusInit
    /\ SmoothInit
    /\ CallInit
    /\ LockInit

GradeNext ==
    \/ \E sc \in GradeScores : LogErrorCall("right_knee", sc, FALSE, "written")
    \/ LogErrorCall("left_elbow", Milli(20), TRUE, "written")
    \/ ResetCall

GradeSpec == GradeInit /\ [][GradeNext]_vars

\* the table of the grades, strictest row first: the most major errors
\* and the bound the average must stay below
GradeTable ==
    << [major |-> 0, below |-> Milli(5), grade |-> "A+ Excellent!"],
       [major |-> 2, below |-> Milli(8), grade |-> "A Great performance!"],
       [major |-> 5, below |-> Milli(10), grade |-> "B+ Good work!"],
       [major |-> 8, below |-> Milli(12), grade |-> "B Nice effort!"],
       [major |-> 12, below |-> Milli(15), grade |-> "C+ Keep practicing!"] >>
\* the place of a grade from the best (1) to the worst (6)
GradeRank(g) ==
    IF \E i \in 1..Len(GradeTable) : GradeTable[i].grade = g
    THEN CHOOSE i \in 1..Len(GradeTable) : GradeTable[i].grade = g
    ELSE Len(GradeTable) + 1
\* the rows of the table a session matches
Matching ==
    {i \in 1..Len(GradeTable) :
        /\ Len(major_errors) <= GradeTable[i].major
        /\ SumScores(error_history) < GradeTable[i].below * Len(error_history)}

\* C22: the grade of a non-empty report is that of the first row of the
\* table that the average of the history's scores and the number of major
\* errors match, the last grade when none does; and a step after which
\* neither the average nor the number of major errors is lower does not
\* lead to a better grade.
C22_GradeTable ==
    [][(error_history # <<>>) =>
         /\ Matching # {} =>
              GradeRank(performance_grade) = CHOOSE i \in Matching : \A k \in Matching : i <= k
         /\ Matching = {} => performance_grade = "C Room for improvement!"
         /\ (/\ error_history' # <<>>
             /\ SumScores(error_history') * Len(error_history)
                  >= SumScores(error_history) * Len(error_history')
             /\ Len(major_errors') >= Len(major_errors))
            => GradeRank(performance_grade') >= GradeRank(performance_grade)]_vars

\* a session that logged on to a low average, and that its thirteen major
\* errors alone hold at the last grade
C22_Witness ==
    /\ now > PreLogged
    /\ error_history # <<>>
    /\ avg_error < Milli(8)
    /\ Len(major_errors) = 13
    /\ performance_grade = "C Room for improvement!"

\* ------------------------------------------------------ the whole report
\* _generate_improvement_plan: the recommendations by their kind and what
\* they name; percentages are in tenths of a percent
generate_improvement_plan(frequent, worst) ==
    IF frequent = <<>>
    THEN << [kind |-> "Excellent form!"] >>
    ELSE << [kind |-> "PRIMARY FOCUS", joint |-> frequent[1].joint,
             count |-> frequent[1].count] >>
         \o (IF Len(frequent) > 1
             THEN << [kind |-> "SECONDARY FOCUS",
                      joints |-> [i \in 1..(IF Len(frequent) < 4 THEN Len(frequent) - 1 ELSE 3)
                                    |-> frequent[i + 1].joint]] >>
             ELSE <<>>)
         \o (IF worst # <<>>
             THEN << [kind |-> "CRITICAL MOMENT", at |-> worst[1].time_formatted,
                      joint |-> worst[1].joint, error_score |-> worst[1].error_score] >>
             ELSE <<>>)
         \o << [kind |-> "CONSISTENCY TIP",
                text |-> IF frequent[1].percentage > 400 THEN "One joint is causing most issues"
                         ELSE "Errors are spread across multiple joints"] >>

\* round(avg_error, 2), in thousandths: the nearest hundredth
AverageRounded ==
    ((2 * SumScores(error_history) + 10 * Len(error_history))
        \div (20 * Len(error_history))) * 10

\* f"{int(d // 60)}m {int(d % 60)}s"
DurationFormatted(d) == <<d \div 60, d % 60>>

\* the report as it would be if it were stamped with the time of the call
\* in place of the session's id
ReportAt_StampedByCall(t) ==
    LET session_duration == t - session_start_time IN
    IF error_history = <<>>
    THEN [session_summary |->
              [duration_seconds |-> session_duration, total_errors |-> 0,
               major_errors |-> 0, performance_grade |-> "Perfect!"],
          frequent_mistakes |-> <<>>,
          worst_moments |-> <<>>,
          improvement_plan |-> << [kind |-> "Keep up the excellent work!"] >>]
    ELSE [session_summary |->
              [session_id |-> t,
               duration_seconds |-> session_duration,
               duration_formatted |-> DurationFormatted(session_duration),
               total_errors |-> Len(error_history),
               major_errors |-> Len(major_errors),
               average_error_degrees |-> AverageRounded,
               performance_grade |-> calculate_grade(avg_error, Len(major_errors))],
          frequent_mistakes |-> frequent_report,
          worst_moments |-> worst_report,
          improvement_plan |-> generate_improvement_plan(frequent_report, worst_report),
          screenshot_directory |-> "mistake_screenshots"]

\* get_comprehensive_report, under the tracker's lock, when time.time()
\* returns t
ReportAt(t) ==
    LET session_duration == t - session_start_time IN
    IF error_history = <<>>
    THEN [session_summary |->
              [duration_seconds |-> session_duration, total_errors |-> 0,
               major_errors |-> 0, performance_grade |-> "Perfect!"],
          frequent_mistakes |-> <<>>,
          worst_moments |-> <<>>,
          improvement_plan |-> << [kind |-> "Keep up the excellent work!"] >>]
    ELSE [session_summary |->
              [session_id |-> session_id,
               duration_seconds |-> session_duration,
               duration_formatted |-> DurationFormatted(session_duration),
               total_errors |-> Len(error_history),
               major_errors |-> Len(major_errors),
               average_error_degrees |-> AverageRounded,
               performance_grade |-> calculate_grade(avg_error, Len(major_errors))],
          frequent_mistakes |-> frequent_report,
          worst_moments |-> worst_report,
          improvement_plan |-> generate_improvement_plan(frequent_report, worst_report),
          screenshot_directory |-> "mistake_screenshots"]

\* the report of a call now
get_comprehensive_report == ReportAt(now)

\* C23: while no error is recorded in the session, the counts and the list
\* of major errors are empty too, and the report is the short one: no
\* errors, no major errors, the grade "Perfect!", no frequent mistakes, no
\* worst moments and the one encouragement, with no average in it.
C23_EmptySession ==
    error_history = <<>> =>
        /\ error_counts = <<>>
        /\ major_errors = <<>>
        /\ LET r == get_comprehensive_report IN
           /\ r.session_summary.total_errors = 0
           /\ r.session_summary.major_errors = Len(major_errors)
           /\ r.session_summary.performance_grade = "Perfect!"
           /\ DOMAIN r.session_summary =
                {"duration_seconds", "total_errors", "major_errors", "performance_grade"}
           /\ r.frequent_mistakes = <<>>
           /\ r.worst_moments = <<>>
           /\ r.improvement_plan = << [kind |-> "Keep up the excellent work!"] >>

\* the long session, reset after a further log_error call
C23_Witness ==
    /\ max_mistakes = 1000
    /\ error_history = <<>>
    /\ session_start_time > PreLogged

\* a report without the duration of the session
Body(r) ==
    [r EXCEPT !.session_summary =
        [f \in DOMAIN r.session_summary \ {"duration_seconds", "duration_formatted"}
            |-> r.session_summary[f]]]

Scenario ==
    /\ ~tracking_active
    /\ Len(error_history) = 3
    /\ [i \in 1..3 |-> <<error_history[i].joint, error_history[i].error_score,
                         error_history[i].screenshot_path # NoPath>>]
         = << <<"left_elbow", Milli(20), TRUE>>, <<"left_elbow", Milli(8), FALSE>>,
              <<"right_knee", Milli(30), TRUE>> >>
    /\ error_history[1].timestamp < error_history[2].timestamp
    /\ error_history[2].timestamp < error_history[3].timestamp

\* C25: the report of the scenario's session counts the left elbow twice
\* and the right knee once, in this order, lists as worst moments the right
\* knee's 30 degrees and then the left elbow's 20, and refers to exactly
\* two screenshots, those of its two major errors.
C25_ScenarioReport ==
    Scenario =>
        LET r == get_comprehensive_report IN
        /\ [i \in 1..Len(r.frequent_mistakes) |->
               <<r.frequent_mistakes[i].joint, r.frequent_mistakes[i].count>>]
             = << <<"left_elbow", 2>>, <<"right_knee", 1>> >>
        /\ [i \in 1..Len(r.worst_moments) |->
               <<r.worst_moments[i].error_score, r.worst_moments[i].joint>>]
             = << <<Milli(30), "right_knee">>, <<Milli(20), "left_elbow">> >>
        /\ Cardinality({r.worst_moments[i].screenshot : i \in 1..Len(r.worst_moments)}) = 2
        /\ r.session_summary.major_errors = 2
        /\ r.session_summary.total_errors = 3

\* the scenario's session, started in the first second of the run and
\* stopped in the third
C25_Witness ==
    /\ Scenario
    /\ session_start_time = 0
    /\ now = 2

\* C26: a reset leaves the history, the counts and the list of major errors
\* empty and the tracking flag as it was, tracking active or not.
C26_ResetKeepsFlag ==
    [][ResetCall =>
         /\ error_history' = <<>>
         /\ error_counts' = <<>>
         /\ major_errors' = <<>>
         /\ tracking_active' = tracking_active]_vars

\* a reset is about to clear a session that has major errors while
\* tracking is active
C26_Witness ==
    /\ tracking_active
    /\ major_errors # <<>>
    /\ Len(error_history) > Len(major_errors)
    /\ ENABLED ResetCall

\* C27 as claimed (every reset gives the session an id of its own).  The
\* session id after reset_tracker is not the id of the session it replaces.
C27_FreshSessionId ==
    [][reset_tracker => session_id' # session_id]_vars

\* C28 as claimed (screenshot names are injective).  Two major errors of a
\* session that differ in frame number, joint or recorded score have
\* different screenshot names.
C28_InjectiveNames ==
    \A i, j \in 1..Len(major_errors) :
        <<major_errors[i].frame, major_errors[i].joint, major_errors[i].error_score>>
          # <<major_errors[j].frame, major_errors[j].joint, major_errors[j].error_score>>
        => major_errors[i].screenshot_path # major_errors[j].screenshot_path

\* ------------------------------------------------- the tracking requests
\* The requests that read and write tracking_active, each on a thread of
\* its own: start_tracking in the two steps of its critical section, as a
\* status request can meet it, stop_tracking, the reset (which takes no
\* tracking_lock), the clock, and tracking_status in the order of its
\* reads.
restVars == <<bufVars, prodVars, connVars, loopVars, emitted, histVars, smoothVars,
              callVars, lockVars>>

\* start_tracking_endpoint as it would be without `with tracking_lock:`
StartBegin_NoLock ==
    /\ requests.tpc = "idle"
    /\ requests' = [requests EXCEPT !.tpc = "flag_set"]
    /\ tracking_active' = TRUE
    /\ UNCHANGED <<restVars, max_mistakes, error_history,
                   error_counts, major_errors, session_start_time, session_id, now>>

\* start_tracking_endpoint: `with tracking_lock:` and tracking_active = True
StartBegin ==
    /\ requests.tracking_lock = Free
    /\ requests.tpc = "idle"
    /\ requests' = [requests EXCEPT !.tracking_lock = <<"start">>, !.tpc = "flag_set"]
    /\ tracking_active' = TRUE
    /\ UNCHANGED <<restVars, max_mistakes, error_history,
                   error_counts, major_errors, session_start_time, session_id, now>>

\* start_tracking_endpoint: mistake_tracker.reset_tracker() and the end of
\* the with block
StartReset ==
    /\ requests.tpc = "flag_set"
    /\ reset_tracker
    /\ requests' = [requests EXCEPT !.tracking_lock = Free, !.tpc = "idle"]
    /\ UNCHANGED <<restVars, tracking_active, max_mistakes, now>>

\* stop_tracking_endpoint, whose with block is one write
StopCall ==
    /\ requests.tracking_lock = Free
    /\ StopTracking

\* get_tracking_status: `with tracking_lock:`
StatusAcquire ==
    /\ requests.tracking_lock = Free
    /\ requests.spc = "idle"
    /\ requests' = [requests EXCEPT !.tracking_lock = <<"status">>, !.spc = "locked"]
    /\ UNCHANGED <<restVars, trackVars>>

\* get_tracking_status: the value of "tracking_active"
StatusReadFlag ==
    /\ requests.spc = "locked"
    /\ requests' = [requests EXCEPT !.sflag = tracking_active, !.spc = "flag_read"]
    /\ UNCHANGED <<restVars, trackVars>>

\* get_tracking_status: `mistake_tracker.session_id if tracking_active else
\* None`, the answer, and the end of the with block
StatusReadId ==
    /\ requests.spc = "flag_read"
    /\ requests' =
         [requests EXCEPT
            !.status = Just([tracking_active |-> requests.sflag,
                             session_id |-> IF tracking_active THEN Just(session_id)
                                            ELSE Nothing]),
            !.tracking_lock = Free,
            !.spc = "idle"]
    /\ UNCHANGED <<restVars, trackVars>>

StatusNext ==
    \/ StartBegin
    \/ StartReset
    \/ StopCall
    \/ ResetCall
    \/ Tick
    \/ StatusAcquire
    \/ StatusReadFlag
    \/ StatusReadId

StatusSpec == Init /\ [][StatusNext]_vars

\* C29: the status query answers with the tracking flag and, only while
\* tracking is active, the tracker's session id (None while it is not); the
\* pair is the flag and the id as they are at one moment at which no
\* start_tracking is between setting the flag and resetting the tracker.
C29_StatusSnapshot ==
    [][StatusReadId =>
         /\ requests.tpc = "idle"
         /\ requests'.status = Just([tracking_active |-> tracking_active,
                            session_id |-> IF tracking_active THEN Just(session_id)
                                           ELSE Nothing])]_vars

\* C29 as stated: the answer holds the flag and the tracker's session id,
\* tracking active or not
C29_Claimed ==
    [][StatusReadId =>
         requests'.status = Just([tracking_active |-> tracking_active,
                         session_id |-> Just(session_id)])]_vars

\* a status answered while tracking is active in a session started later
\* than the program, and a start_tracking under way again
C29_Witness ==
    /\ requests.status # Nothing
    /\ The(requests.status).tracking_active
    /\ The(requests.status).session_id = Just(session_id)
    /\ session_id > 0
    /\ requests.tpc = "flag_set"

\* ----------------------------------------------------------- the smoother
\* PoseSmoothing driven through its four methods, one call at a time, from
\* the smoother the module constructs.  Pixel coordinates, angles and 3-D
\* coordinates are counted in thousandths, and the inputs are whole units,
\* so that the averages of the first calls are exact.
MaxSmooth == 3        \* non-empty inputs over the run, all channels together

\* alpha, in tenths
alpha == 7
\* the blend as it would be with alpha on both samples
Ema_AlphaOnBoth(new, prev) == (alpha * new + alpha * prev) \div 10
\* self.alpha * new + (1 - self.alpha) * prev
Ema(new, prev) == (alpha * new + (10 - alpha) * prev) \div 10

\* the inputs: an empty one and two or three others for each method
Lm(name, x, y) == [name |-> name, x |-> x, y |-> y]
BodyInputs ==
    { <<>>, << Lm("nose", 0, 0) >>, << Lm("nose", 1000, 2000) >>,
      << Lm("nose", 3000, 1000), Lm("left_eye", 2000, 0) >> }
HandLm(name, x, y, z) == [name |-> name, x |-> x, y |-> y, z |-> z]
HandSides ==
    { <<>>, << HandLm("wrist", 1000, 1000, 0) >>,
      << HandLm("wrist", 3000, 0, 1000), HandLm("thumb_cmc", 2000, 1000, 0) >> }
HandInputs == [{"left", "right"} -> HandSides]
AngleInputs ==
    { <<>>, [left_elbow |-> 90000], [left_elbow |-> 170000, right_knee |-> 10000] }
Coord(x, y, z) == [x |-> x, y |-> y, z |-> z]
CoordInputs ==
    { <<>>, [left_elbow |-> Coord(0, 1000, 2000)],
      [left_elbow |-> Coord(1000, 1000, 0), right_knee |-> Coord(2000, 0, 1000)] }

\* the number of non-empty inputs so far, and whether a channel had one
FedAll == Len(smoothLog.fed)
Fed(c) == \E i \in 1..Len(smoothLog.fed) : smoothLog.fed[i] = c

\* the landmarks as they would be if each were smoothed against the first
\* of the previous ones
SmoothList_AgainstFirst(landmarks, prev) ==
    [i \in 1..Len(landmarks) |->
        IF i <= Len(prev)
        THEN [landmarks[i] EXCEPT !.x = Ema(landmarks[i].x, prev[1].x),
                                  !.y = Ema(landmarks[i].y, prev[1].y)]
        ELSE landmarks[i]]

\* the landmarks smoothed against the previous ones, index by index; a
\* landmark past the end of the previous list is taken as it is
SmoothList(landmarks, prev) ==
    [i \in 1..Len(landmarks) |->
        IF i <= Len(prev)
        THEN [landmarks[i] EXCEPT !.x = Ema(landmarks[i].x, prev[i].x),
                                  !.y = Ema(landmarks[i].y, prev[i].y)]
        ELSE landmarks[i]]

\* a call that returns value: for a non-empty input on the channels chs
Returns(method, value, chs) ==
    smoothLog' = [smoothLog EXCEPT !.returned = Just([call |-> method, value |-> value]),
                                   !.fed = smoothLog.fed \o chs]

\* smooth_body as it would be with a missing previous list taken as zeros
smooth_body_FromZero(landmarks) ==
    /\ landmarks # <<>> => FedAll < MaxSmooth
    /\ IF landmarks = <<>>
       THEN /\ Returns("smooth_body", landmarks, <<>>)
            /\ UNCHANGED smoother
       ELSE LET prev == IF smoother.smoothed_body = Nothing
                        THEN [i \in 1..Len(landmarks) |-> Lm(landmarks[i].name, 0, 0)]
                        ELSE The(smoother.smoothed_body)
                smoothed == SmoothList(landmarks, prev)
            IN /\ smoother' = [smoother EXCEPT !.smoothed_body = Just(smoothed)]
               /\ Returns("smooth_body", smoothed, <<"body">>)
    /\ UNCHANGED <<bufVars, prodVars, connVars, loopVars, trackVars, emitted, histVars,
                   statusVars, callVars, lockVars>>

\* smoother.smooth_body(landmarks)
smooth_body(landmarks) ==
    /\ landmarks # <<>> => FedAll < MaxSmooth
    /\ IF landmarks = <<>>
       THEN /\ Returns("smooth_body", landmarks, <<>>)
            /\ UNCHANGED smoother
       ELSE IF smoother.smoothed_body = Nothing
       THEN /\ smoother' = [smoother EXCEPT !.smoothed_body = Just(landmarks)]
            /\ Returns("smooth_body", landmarks, <<"body">>)
       ELSE LET smoothed == SmoothList(landmarks, The(smoother.smoothed_body))
            IN /\ smoother' = [smoother EXCEPT !.smoothed_body = Just(smoothed)]
               /\ Returns("smooth_body", smoothed, <<"body">>)
    /\ UNCHANGED <<bufVars, prodVars, connVars, loopVars, trackVars, emitted, histVars,
                   statusVars, callVars, lockVars>>

\* smooth_hands for one side: what it returns for the side
HandSmoothed(side, landmarks) ==
    IF landmarks = <<>> THEN <<>>
    ELSE IF smoother.smoothed_hands[side] = Nothing THEN landmarks
    ELSE SmoothList(landmarks, The(smoother.smoothed_hands[side]))

\* what a smooth_hands call leaves in the history
HandsLogged(hands_data) ==
    smoothLog' =
      [returned |-> Just([call |-> "smooth_hands",
                          value |-> [side \in {"left", "right"} |->
                                        HandSmoothed(side, hands_data[side])]]),
       fed |-> smoothLog.fed
                 \o (IF hands_data["left"] # <<>> THEN <<"left">> ELSE <<>>)
                 \o (IF hands_data["right"] # <<>> THEN <<"right">> ELSE <<>>),
       gone |-> smoothLog.gone
                  \cup {side \in {"left", "right"} :
                          hands_data[side] = <<>> /\ smoother.smoothed_hands[side] # Nothing}]

\* smooth_hands as it would be if an empty side kept what was smoothed for it
smooth_hands_KeepsPrior(hands_data) ==
    /\ FedAll + Cardinality({side \in {"left", "right"} : hands_data[side] # <<>>})
         <= MaxSmooth
    /\ smoother' =
         [smoother EXCEPT !.smoothed_hands =
            [side \in {"left", "right"} |->
                IF hands_data[side] = <<>> THEN smoother.smoothed_hands[side]
                ELSE Just(HandSmoothed(side, hands_data[side]))]]
    /\ HandsLogged(hands_data)
    /\ UNCHANGED <<bufVars, prodVars, connVars, loopVars, trackVars, emitted, histVars,
                   statusVars, callVars, lockVars>>

\* smoother.smooth_hands(hands_data): an empty side forgets what was
\* smoothed for it
smooth_hands(hands_data) ==
    /\ FedAll + Cardinality({side \in {"left", "right"} : hands_data[side] # <<>>})
         <= MaxSmooth
    /\ smoother' =
         [smoother EXCEPT !.smoothed_hands =
            [side \in {"left", "right"} |->
                IF hands_data[side] = <<>> THEN Nothing
                ELSE Just(HandSmoothed(side, hands_data[side]))]]
    /\ HandsLogged(hands_data)
    /\ UNCHANGED <<bufVars, prodVars, connVars, loopVars, trackVars, emitted, histVars,
                   statusVars, callVars, lockVars>>

\* smoother.smooth_3d_angles(angles): a key the previous angles lack is
\* taken as it is
smooth_3d_angles(angles) ==
    /\ DOMAIN angles # {} => FedAll < MaxSmooth
    /\ IF DOMAIN angles = {}
       THEN /\ Returns("smooth_3d_angles", angles, <<>>)
            /\ UNCHANGED smoother
       ELSE IF smoother.smoothed_3d_angles = Nothing
       THEN /\ smoother' = [smoother EXCEPT !.smoothed_3d_angles = Just(angles)]
            /\ Returns("smooth_3d_angles", angles, <<"angles">>)
       ELSE LET prev == The(smoother.smoothed_3d_angles)
                smoothed == [key \in DOMAIN angles |->
                                IF key \in DOMAIN prev THEN Ema(angles[key], prev[key])
                                ELSE angles[key]]
            IN /\ smoother' = [smoother EXCEPT !.smoothed_3d_angles = Just(smoothed)]
               /\ Returns("smooth_3d_angles", smoothed, <<"angles">>)
    /\ UNCHANGED <<bufVars, prodVars, connVars, loopVars, trackVars, emitted, histVars,
                   statusVars, callVars, lockVars>>

\* smoother.smooth_3d_coords(coords)
smooth_3d_coords(coords) ==
    /\ DOMAIN coords # {} => FedAll < MaxSmooth
    /\ IF DOMAIN coords = {}
       THEN /\ Returns("smooth_3d_coords", coords, <<>>)
            /\ UNCHANGED smoother
       ELSE IF smoother.smoothed_3d_coords = Nothing
       THEN /\ smoother' = [smoother EXCEPT !.smoothed_3d_coords = Just(coords)]
            /\ Returns("smooth_3d_coords", coords, <<"coords">>)
       ELSE LET prev == The(smoother.smoothed_3d_coords)
                smoothed == [joint \in DOMAIN coords |->
                                IF joint \in DOMAIN prev
                                THEN Coord(Ema(coords[joint].x, prev[joint].x),
                                           Ema(coords[joint].y, prev[joint].y),
                                           Ema(coords[joint].z, prev[joint].z))
                                ELSE coords[joint]]
            IN /\ smoother' = [smoother EXCEPT !.smoothed_3d_coords = Just(smoothed)]
               /\ Returns("smooth_3d_coords", smoothed, <<"coords">>)
    /\ UNCHANGED <<bufVars, prodVars, connVars, loopVars, trackVars, emitted, histVars,
                   statusVars, callVars, lockVars>>

SmoothNext ==
    \/ \E landmarks \in BodyInputs : smooth_body(landmarks)
    \/ \E hands_data \in HandInputs : smooth_hands(hands_data)
    \/ \E angles \in AngleInputs : smooth_3d_angles(angles)
    \/ \E coords \in CoordInputs : smooth_3d_coords(coords)

SmoothSpec == Init /\ [][SmoothNext]_vars

\* C30: the first non-empty input that the module's smoother gets for the
\* body, for a hand side, for the 3-D angles or for the 3-D coordinates is
\* returned as it was given, and is what the smoother then holds for the
\* channel.
C30_FirstFramePassthrough ==
    [][/\ \A landmarks \in BodyInputs :
            (smooth_body(landmarks) /\ landmarks # <<>> /\ ~Fed("body"))
            => (The(smoothLog'.returned).value = landmarks /\ smoother'.smoothed_body = Just(landmarks))
       /\ \A hands_data \in HandInputs, side \in {"left", "right"} :
            (smooth_hands(hands_data) /\ hands_data[side] # <<>> /\ ~Fed(side))
            => (The(smoothLog'.returned).value[side] = hands_data[side]
                /\ smoother'.smoothed_hands[side] = Just(hands_data[side]))
       /\ \A angles \in AngleInputs :
            (smooth_3d_angles(angles) /\ DOMAIN angles # {} /\ ~Fed("angles"))
            => (The(smoothLog'.returned).value = angles /\ smoother'.smoothed_3d_angles = Just(angles))
       /\ \A coords \in CoordInputs :
            (smooth_3d_coords(coords) /\ DOMAIN coords # {} /\ ~Fed("coords"))
            => (The(smoothLog'.returned).value = coords /\ smoother'.smoothed_3d_coords = Just(coords))]_vars

\* the first body landmarks, two of them, just returned by a smoother that
\* holds angles already
C30_Witness ==
    /\ smoothLog.returned # Nothing
    /\ The(smoothLog.returned).call = "smooth_body"
    /\ smoothLog.fed = <<"angles", "body">>
    /\ Len(The(smoothLog.returned).value) = 2
    /\ smoother.smoothed_body = Just(The(smoothLog.returned).value)

\* C31: a non-empty input equal to what the smoother holds for its channel,
\* as it does from the second of several equal inputs in a row on, is
\* returned as it was given and stays what the smoother holds (the blend
\* computed exactly).
C31_ConstantInputFixed ==
    [][/\ \A landmarks \in BodyInputs :
            (smooth_body(landmarks) /\ landmarks # <<>>
               /\ smoother.smoothed_body = Just(landmarks))
            => (The(smoothLog'.returned).value = landmarks
                /\ smoother'.smoothed_body = Just(landmarks))
       /\ \A hands_data \in HandInputs, side \in {"left", "right"} :
            (smooth_hands(hands_data) /\ hands_data[side] # <<>>
               /\ smoother.smoothed_hands[side] = Just(hands_data[side]))
            => (The(smoothLog'.returned).value[side] = hands_data[side]
                /\ smoother'.smoothed_hands[side] = Just(hands_data[side]))
       /\ \A angles \in AngleInputs :
            (smooth_3d_angles(angles) /\ DOMAIN angles # {}
               /\ smoother.smoothed_3d_angles = Just(angles))
            => (The(smoothLog'.returned).value = angles
                /\ smoother'.smoothed_3d_angles = Just(angles))
       /\ \A coords \in CoordInputs :
            (smooth_3d_coords(coords) /\ DOMAIN coords # {}
               /\ smoother.smoothed_3d_coords = Just(coords))
            => (The(smoothLog'.returned).value = coords
                /\ smoother'.smoothed_3d_coords = Just(coords))]_vars

\* the same two joints' coordinates given three times to a fresh smoother
\* and returned the third time
C31_Witness ==
    /\ smoothLog.fed = <<"coords", "coords", "coords">>
    /\ smoothLog.returned # Nothing
    /\ The(smoothLog.returned).call = "smooth_3d_coords"
    /\ The(smoothLog.returned).value
         = [left_elbow |-> Coord(1000, 1000, 0), right_knee |-> Coord(2000, 0, 1000)]
    /\ smoother.smoothed_3d_coords = Just(The(smoothLog.returned).value)

\* the other hand side
Other(side) == IF side = "left" THEN "right" ELSE "left"

\* what smooth_hands is to give for a side: nothing for no landmarks, the
\* landmarks for a side that holds nothing, else each landmark blended
\* with the held landmark of its name
HandExpected(landmarks, held) ==
    IF landmarks = <<>> THEN <<>>
    ELSE IF held = Nothing THEN landmarks
    ELSE [i \in 1..Len(landmarks) |->
            LET lm == landmarks[i]
                same == {j \in 1..Len(The(held)) : The(held)[j].name = lm.name}
            IN IF same = {} THEN lm
               ELSE LET prev == The(held)[CHOOSE j \in same : TRUE]
                    IN HandLm(lm.name, Ema(lm.x, prev.x), Ema(lm.y, prev.y), lm.z)]

\* C32: a smooth_hands call with no landmarks for a side returns the empty
\* list for the side and leaves nothing held for it, while the other side
\* is returned and held as its own landmarks and its own held value make
\* it; and landmarks given for a side that was cleared are returned and
\* held as they were given.
C32_HandCleared ==
    [][\A hands_data \in HandInputs, side \in {"left", "right"} :
          smooth_hands(hands_data) =>
            /\ hands_data[side] = <<>> =>
                 /\ The(smoothLog'.returned).value[side] = <<>>
                 /\ smoother'.smoothed_hands[side] = Nothing
                 /\ The(smoothLog'.returned).value[Other(side)]
                      = HandExpected(hands_data[Other(side)],
                                     smoother.smoothed_hands[Other(side)])
                 /\ smoother'.smoothed_hands[Other(side)]
                      = (IF hands_data[Other(side)] = <<>> THEN Nothing
                         ELSE Just(The(smoothLog'.returned).value[Other(side)]))
            /\ (hands_data[side] # <<>> /\ side \in smoothLog.gone
                  /\ smoother.smoothed_hands[side] = Nothing) =>
                 /\ The(smoothLog'.returned).value[side] = hands_data[side]
                 /\ smoother'.smoothed_hands[side] = Just(hands_data[side])]_vars

\* the left hand, held and then cleared while the right hand was given,
\* has just been given again and returned, the right hand cleared in turn
C32_Witness ==
    /\ smoothLog.fed = <<"left", "right", "left">>
    /\ smoothLog.gone = {"left", "right"}
    /\ smoothLog.returned # Nothing
    /\ The(smoothLog.returned).call = "smooth_hands"
    /\ The(smoothLog.returned).value["left"] # <<>>
    /\ smoother.smoothed_hands["left"] = Just(The(smoothLog.returned).value["left"])
    /\ smoother.smoothed_hands["right"] = Nothing

\* what smooth_body is to give: each landmark blended with the held
\* landmark of its name, or as it is when none of its name is held
BodyExpected(landmarks, held) ==
    [i \in 1..Len(landmarks) |->
        LET lm == landmarks[i]
            same == {j \in 1..Len(held) : held[j].name = lm.name}
        IN IF same = {} THEN lm
           ELSE LET prev == held[CHOOSE j \in same : TRUE]
                IN Lm(lm.name, Ema(lm.x, prev.x), Ema(lm.y, prev.y))]

\* C33: with something held for the channel, every body landmark, hand
\* landmark, angle and coordinate a call returns is the blend of the input
\* of that name with the held value of the same name, or the input itself
\* when nothing of that name is held, whatever other names the input has
\* or lacks; and what is returned is what is then held.
C33_PerNamedPoint ==
    [][/\ \A landmarks \in BodyInputs :
            (smooth_body(landmarks) /\ landmarks # <<>>
               /\ smoother.smoothed_body # Nothing)
            => /\ The(smoothLog'.returned).value
                    = BodyExpected(landmarks, The(smoother.smoothed_body))
               /\ smoother'.smoothed_body = Just(The(smoothLog'.returned).value)
       /\ \A hands_data \in HandInputs, side \in {"left", "right"} :
            (smooth_hands(hands_data) /\ hands_data[side] # <<>>
               /\ smoother.smoothed_hands[side] # Nothing)
            => /\ The(smoothLog'.returned).value[side]
                    = HandExpected(hands_data[side], smoother.smoothed_hands[side])
               /\ smoother'.smoothed_hands[side]
                    = Just(The(smoothLog'.returned).value[side])
       /\ \A angles \in AngleInputs :
            (smooth_3d_angles(angles) /\ DOMAIN angles # {}
               /\ smoother.smoothed_3d_angles # Nothing)
            => LET prev == The(smoother.smoothed_3d_angles)
                   out == The(smoothLog'.returned).value
               IN /\ DOMAIN out = DOMAIN angles
                  /\ \A key \in DOMAIN angles :
                        out[key] = IF key \in DOMAIN prev
                                   THEN Ema(angles[key], prev[key]) ELSE angles[key]
                  /\ smoother'.smoothed_3d_angles = Just(out)
       /\ \A coords \in CoordInputs :
            (smooth_3d_coords(coords) /\ DOMAIN coords # {}
               /\ smoother.smoothed_3d_coords # Nothing)
            => LET prev == The(smoother.smoothed_3d_coords)
                   out == The(smoothLog'.returned).value
               IN /\ DOMAIN out = DOMAIN coords
                  /\ \A joint \in DOMAIN coords :
                        out[joint] = IF joint \in DOMAIN prev
                                     THEN Coord(Ema(coords[joint].x, prev[joint].x),
                                                Ema(coords[joint].y, prev[joint].y),
                                                Ema(coords[joint].z, prev[joint].z))
                                     ELSE coords[joint]
                  /\ smoother'.smoothed_3d_coords = Just(out)]_vars

\* nose and left_eye given, then nose alone, then both again: the nose
\* is returned blended with the nose held through the three calls, the
\* left_eye as it was given
C33_Witness ==
    /\ smoothLog.fed = <<"body", "body", "body">>
    /\ smoothLog.returned # Nothing
    /\ The(smoothLog.returned).call = "smooth_body"
    /\ The(smoothLog.returned).value = << Lm("nose", 2580, 1210), Lm("left_eye", 2000, 0) >>

\* ------------------------------------------------------------ projection
\* What the inference loop and the two HTTP endpoints make of the
\* detectors' output for one frame.  A detector coordinate is a fraction
\* of the frame in ten-thousandths, a visibility a fraction in
\* thousandths; a pixel coordinate is in tenths of a pixel, a normalized
\* coordinate and a depth in thousandths.
MOVENET_INDICES == <<0, 2, 5, 7, 8, 11, 12, 13, 14, 15, 16, 23, 24, 25, 26, 27, 28>>
MOVENET_NAMES ==
    <<"nose", "left_eye", "right_eye", "left_ear", "right_ear",
      "left_shoulder", "right_shoulder", "left_elbow", "right_elbow",
      "left_wrist", "right_wrist", "left_hip", "right_hip",
      "left_knee", "right_knee", "left_ankle", "right_ankle">>
HAND_LANDMARK_SELECTION ==
    << <<"wrist", 0>>, <<"thumb_cmc", 1>>, <<"thumb_tip", 4>>, <<"index_mcp", 5>>,
       <<"index_tip", 8>>, <<"middle_mcp", 9>>, <<"middle_tip", 12>>,
       <<"ring_mcp", 13>>, <<"ring_tip", 16>>, <<"pinky_mcp", 17>>,
       <<"pinky_tip", 20>> >>
HAND_LANDMARK_NAMES ==
    [i \in 1..Len(HAND_LANDMARK_SELECTION) |-> HAND_LANDMARK_SELECTION[i][1]]

\* round(n / d) of a non-negative quotient, a half going to the even side
RoundDiv(n, d) ==
    LET q == n \div d
        r == n % d
    IN IF 2 * r < d THEN q
       ELSE IF 2 * r > d THEN q + 1
       ELSE IF q % 2 = 0 THEN q ELSE q + 1

\* handedness.lower()
Lower(label) ==
    CASE label = "Left" -> "left"
      [] label = "Right" -> "right"
      [] label = "LEFT" -> "left"
      [] OTHER -> "unknown"

\* the detectors' output: pose landmarks (None without a pose) of several
\* lengths and visibilities, the 33 of the detector among them; up to two
\* hands of 21 landmarks or fewer, with their handedness labels (None
\* without them)
PoseLengths == {1, 6, 12, 24, 33}
Visibilities ==
    { [j \in 1..33 |-> 300], [j \in 1..33 |-> 301],
      [j \in 1..33 |-> IF j % 2 = 0 THEN 955 ELSE 45],
      [j \in 1..33 |-> IF j % 2 = 0 THEN 295 ELSE 305] }
PoseOutputs ==
    {Nothing} \cup
    { Just([j \in 1..n |-> [x |-> 290 * j + 125, y |-> 10000 - 290 * j,
                            visibility |-> v[j]]]) :
        n \in PoseLengths, v \in Visibilities }
HandLengths == {21, 11, 5}
HandOutput(n) == [j \in 1..n |-> [x |-> 400 * j + 55, y |-> 9000 - 400 * j, z |-> 15 * j]]
Labels == {"Left", "Right", "Unknown"}
HandOutputs ==
    { [multi_hand_landmarks |-> <<>>, multi_handedness |-> Nothing] } \cup
    { [multi_hand_landmarks |-> [h \in 1..k |-> HandOutput(ns[h])], multi_handedness |-> ls] :
        k \in 1..2,
        ns \in [1..2 -> HandLengths],
        ls \in {Nothing} \cup { Just(l) : l \in [1..2 -> Labels] } }
FrameSizes == { <<640, 480>> }

\* the body landmark made of a detector landmark
BodyPoint(name, lm, width, height) ==
    [name |-> name,
     x |-> RoundDiv(lm.x * width, 1000),
     y |-> RoundDiv(lm.y * height, 1000),
     confidence |-> RoundDiv(lm.visibility, 10),
     visible |-> lm.visibility > 300]

\* the body landmarks: the schema's entries in order, those whose index
\* the detector's list has
ProjectBody(pose_landmarks, width, height) ==
    IF pose_landmarks = Nothing THEN <<>>
    ELSE LET landmarks == The(pose_landmarks)
             kept == SelectSeq([k \in 1..Len(MOVENET_INDICES) |-> k],
                               LAMBDA k : MOVENET_INDICES[k] < Len(landmarks))
         IN [i \in 1..Len(kept) |->
                BodyPoint(MOVENET_NAMES[kept[i]], landmarks[MOVENET_INDICES[kept[i]] + 1],
                          width, height)]

\* the hand landmark made of a detector landmark
HandPoint(name, lm, width, height) ==
    [name |-> name,
     x |-> RoundDiv(lm.x * width, 1000),
     y |-> RoundDiv(lm.y * height, 1000),
     z |-> lm.z,
     normalized_x |-> RoundDiv(lm.x, 10),
     normalized_y |-> RoundDiv(lm.y, 10)]

\* the loop's hand_data: the selected landmarks that the hand's list has
SelectedHand(hand_lms, width, height) ==
    LET kept == SelectSeq([k \in 1..Len(HAND_LANDMARK_SELECTION) |-> k],
                          LAMBDA k : HAND_LANDMARK_SELECTION[k][2] < Len(hand_lms))
    IN [i \in 1..Len(kept) |->
           HandPoint(HAND_LANDMARK_SELECTION[kept[i]][1],
                     hand_lms[HAND_LANDMARK_SELECTION[kept[i]][2] + 1], width, height)]

\* the endpoints' hand_data: every landmark of the hand, named by its
\* position in HAND_LANDMARK_NAMES
EnumeratedHand(hand_lms, width, height) ==
    [i \in 1..Len(hand_lms) |-> HandPoint(HAND_LANDMARK_NAMES[i], hand_lms[i], width, height)]

\* hand_landmarks[hand_side] = hand_data
DictSet(d, key, value) ==
    [k \in DOMAIN d \cup {key} |-> IF k = key THEN value ELSE d[k]]

\* the loop over the hands from hand_idx on as it would be without
\* `if hand_side not in hand_landmarks: continue`
RECURSIVE LoopHands_AnySide(_, _, _, _)
LoopHands_AnySide(hand_results, hand_idx, hand_landmarks, size) ==
    IF hand_idx > Len(hand_results.multi_hand_landmarks) THEN hand_landmarks
    ELSE LET hand_side == Lower(The(hand_results.multi_handedness)[hand_idx])
             hand_data == SelectedHand(hand_results.multi_hand_landmarks[hand_idx],
                                       size[1], size[2])
         IN LoopHands_AnySide(hand_results, hand_idx + 1,
                              DictSet(hand_landmarks, hand_side, hand_data), size)

\* inference_loop: the loop over the hands from hand_idx on
RECURSIVE LoopHands(_, _, _, _)
LoopHands(hand_results, hand_idx, hand_landmarks, size) ==
    IF hand_idx > Len(hand_results.multi_hand_landmarks) THEN hand_landmarks
    ELSE LET hand_side == Lower(The(hand_results.multi_handedness)[hand_idx])
             hand_data == SelectedHand(hand_results.multi_hand_landmarks[hand_idx],
                                       size[1], size[2])
         IN IF hand_side \notin DOMAIN hand_landmarks
            THEN LoopHands(hand_results, hand_idx + 1, hand_landmarks, size)
            ELSE LoopHands(hand_results, hand_idx + 1,
                           DictSet(hand_landmarks, hand_side, hand_data), size)

\* {"left": [], "right": []}
NoHands == [side \in {"left", "right"} |-> <<>>]

\* `if hand_results.multi_hand_landmarks and hand_results.multi_handedness`
HandsGiven(hand_results) ==
    /\ hand_results.multi_hand_landmarks # <<>>
    /\ hand_results.multi_handedness # Nothing

\* inference_loop: body_landmarks and hand_landmarks as they are when
\* the smoother gets them; raised tells an exception
LoopProjection(args) ==
    [raised |-> FALSE,
     body |-> ProjectBody(args.pose_landmarks, args.size[1], args.size[2]),
     hands |-> IF HandsGiven(args.hand_results)
               THEN LoopHands(args.hand_results, 1, NoHands, args.size)
               ELSE NoHands]

\* estimate_pose, estimate_pose_reference: the loop over the hands from
\* hand_idx on
RECURSIVE EndpointHands(_, _, _, _)
EndpointHands(hand_results, hand_idx, hand_landmarks, size) ==
    IF hand_idx > Len(hand_results.multi_hand_landmarks) THEN hand_landmarks
    ELSE LET hand_side == Lower(The(hand_results.multi_handedness)[hand_idx])
             hand_data == EnumeratedHand(hand_results.multi_hand_landmarks[hand_idx],
                                         size[1], size[2])
         IN EndpointHands(hand_results, hand_idx + 1,
                          DictSet(hand_landmarks, hand_side, hand_data), size)

\* HAND_LANDMARK_NAMES[lm_idx] raises IndexError for a landmark past the
\* names
EndpointRaises(hand_results) ==
    /\ HandsGiven(hand_results)
    /\ \E h \in 1..Len(hand_results.multi_hand_landmarks) :
          Len(hand_results.multi_hand_landmarks[h]) > Len(HAND_LANDMARK_NAMES)

\* estimate_pose, estimate_pose_reference: the JSON answered, the one of
\* the except branch when an exception was raised
EndpointResponse(args) ==
    IF EndpointRaises(args.hand_results)
    THEN [raised |-> TRUE, body |-> <<>>, hands |-> NoHands]
    ELSE [raised |-> FALSE,
          body |-> ProjectBody(args.pose_landmarks, args.size[1], args.size[2]),
          hands |-> IF HandsGiven(args.hand_results)
                    THEN EndpointHands(args.hand_results, 1, NoHands, args.size)
                    ELSE NoHands]

\* a frame's detector output, nothing made of it yet
ProjectInit ==
    /\ Loaded
    /\ \E pose_landmarks \in PoseOutputs, hand_results \in HandOutputs, size \in FrameSizes :
          call = [fn |-> "none",
                  args |-> [pose_landmarks |-> pose_landmarks,
                            hand_results |-> hand_results, size |-> size],
                  result |-> Nothing]

\* the inference loop makes the landmarks of the frame
ProjectLoop ==
    /\ call' = [call EXCEPT !.fn = "inference_loop",
                            !.result = Just(LoopProjection(call.args))]
    /\ UNCHANGED <<bufVars, prodVars, connVars, loopVars, trackVars, emitted, histVars,
                   statusVars, smoothVars, lockVars>>

\* POST /estimate_pose with the frame
estimate_pose ==
    /\ call' = [call EXCEPT !.fn = "estimate_pose",
                            !.result = Just(EndpointResponse(call.args))]
    /\ UNCHANGED <<bufVars, prodVars, connVars, loopVars, trackVars, emitted, histVars,
                   statusVars, smoothVars, lockVars>>

\* POST /estimate_pose_reference with the frame
estimate_pose_reference ==
    /\ call' = [call EXCEPT !.fn = "estimate_pose_reference",
                            !.result = Just(EndpointResponse(call.args))]
    /\ UNCHANGED <<bufVars, prodVars, connVars, loopVars, trackVars, emitted, histVars,
                   statusVars, smoothVars, lockVars>>

ProjectNext ==
    \/ ProjectLoop
    \/ estimate_pose
    \/ estimate_pose_reference

ProjectSpec == ProjectInit /\ [][ProjectNext]_vars

\* the number of landmarks the pose detector gave
PoseCount(args) ==
    IF args.pose_landmarks = Nothing THEN 0 ELSE Len(The(args.pose_landmarks))

\* the hands the detector labelled as the side
HandsOf(args, side) ==
    IF ~HandsGiven(args.hand_results) THEN {}
    ELSE {h \in 1..Len(args.hand_results.multi_hand_landmarks) :
            Lower(The(args.hand_results.multi_handedness)[h]) = side}

\* C35: what the inference loop makes of any detector output is made
\* without an exception; its body list carries, in schema order, the names
\* of exactly the schema indices that the detector's list has, 17 at
\* most, each marked visible iff the detector's visibility for its index
\* is above 0.3; and its hands mapping has the keys left and right and no
\* other, a side holding the selected landmarks of the last hand labelled
\* with it and nothing when no hand is, a hand labelled otherwise left out.
C35_ProjectionTotal ==
    (call.fn = "inference_loop" /\ call.result # Nothing) =>
        LET args == call.args
            r == The(call.result)
            mapped == {k \in 1..Len(MOVENET_INDICES) : MOVENET_INDICES[k] < PoseCount(args)}
        IN /\ ~r.raised
           /\ Len(r.body) = Cardinality(mapped)
           /\ Len(r.body) <= 17
           /\ \A i \in 1..Len(r.body) :
                 /\ i \in mapped
                 /\ r.body[i].name = MOVENET_NAMES[i]
                 /\ r.body[i].visible
                      <=> The(args.pose_landmarks)[MOVENET_INDICES[i] + 1].visibility > 300
           /\ DOMAIN r.hands = {"left", "right"}
           /\ \A side \in {"left", "right"} :
                 IF HandsOf(args, side) = {} THEN r.hands[side] = <<>>
                 ELSE LET h == CHOOSE h \in HandsOf(args, side) :
                                  \A g \in HandsOf(args, side) : g <= h
                          n == Len(args.hand_results.multi_hand_landmarks[h])
                      IN /\ Len(r.hands[side])
                              = Cardinality({k \in 1..Len(HAND_LANDMARK_SELECTION) :
                                               HAND_LANDMARK_SELECTION[k][2] < n})
                         /\ \A i \in 1..Len(r.hands[side]) :
                               r.hands[side][i].name = HAND_LANDMARK_NAMES[i]

\* the loop has made the landmarks of a frame with 24 pose landmarks, of
\* visibility 0.305 and 0.295 in turn, a short hand labelled Unknown and a
\* hand labelled Left: 12 body landmarks, nose visible and right_eye not
\* at the same confidence of 30, a left hand, no right hand
C35_Witness ==
    /\ call.fn = "inference_loop"
    /\ call.result # Nothing
    /\ PoseCount(call.args) = 24
    /\ Len(The(call.result).body) = 12
    /\ The(call.result).body[1].visible
    /\ The(call.result).body[1].confidence = 30
    /\ ~The(call.result).body[3].visible
    /\ The(call.result).body[3].confidence = 30
    /\ call.args.hand_results.multi_handedness = Just(<<"Unknown", "Left">>)
    /\ Len(call.args.hand_results.multi_hand_landmarks[1]) = 5
    /\ Len(The(call.result).hands["left"]) = 11
    /\ The(call.result).hands["right"] = <<>>

\* C37: for a frame with hands detected, estimate_pose and
\* estimate_pose_reference answer without having raised an exception: the
\* body landmarks of the frame, and under left and under right the
\* landmarks of a hand that was labelled so.
C37_HandsWithBody ==
    (call.fn \in {"estimate_pose", "estimate_pose_reference"} /\ call.result # Nothing
       /\ HandsGiven(call.args.hand_results)) =>
        LET args == call.args
            r == The(call.result)
        IN /\ ~r.raised
           /\ r.body = ProjectBody(args.pose_landmarks, args.size[1], args.size[2])
           /\ \A side \in {"left", "right"} :
                 HandsOf(args, side) # {} => r.hands[side] # <<>>

\* --------------------------------------------------------------- the locks
\* The three locks and the threads that take them, each thread as the
\* sequence of `with` blocks its code enters, a block as an acquire and a
\* release (threading.Lock: not reentrant, an acquire waits until the lock
\* is free).  Of the data only tracking_active is followed, which decides
\* whether the loop calls log_error; what the blocks do to the rest is
\* followed in the other specifications.
Op(op, l, when) == [op |-> op, lock |-> l, when |-> when]
\* `with l:` ... end of the block
With(l, when) == << Op("acquire", l, when), Op("release", l, when) >>

\* LatestFrameBuffer.put, get and get_stats
PutOps == With("frame_buffer.lock", "always")
GetOps == With("frame_buffer.lock", "always")
GetStatsOps == With("frame_buffer.lock", "always")
\* log_error as it would be if it looked at the tracking flag under
\* tracking_lock inside its own block
LogErrorOps_ChecksTracking ==
    << Op("acquire", "mistake_tracker.lock", "tracking"),
       Op("acquire", "tracking_lock", "tracking"),
       Op("release", "tracking_lock", "tracking"),
       Op("release", "mistake_tracker.lock", "tracking") >>
\* MistakeTracker.log_error, which the loop calls only `if is_tracking:`
LogErrorOps == With("mistake_tracker.lock", "tracking")
\* MistakeTracker.get_comprehensive_report and reset_tracker
ReportOps == With("mistake_tracker.lock", "always")
ResetOps == With("mistake_tracker.lock", "always")

\* inference_loop: `with tracking_lock: is_tracking = tracking_active`
\* before the logging, and the same before the emission
TrackingCheckOps ==
    << Op("acquire", "tracking_lock", "always"), Op("read", "tracking_lock", "always"),
       Op("release", "tracking_lock", "always") >>
EmitCheckOps == With("tracking_lock", "always")

\* one iteration of the loop: without a frame; with a frame in 2-D mode;
\* with a frame in 3-D mode, two joints scored
LoopPaths ==
    { GetOps,
      GetOps \o GetStatsOps \o EmitCheckOps,
      GetOps \o TrackingCheckOps \o LogErrorOps \o LogErrorOps \o GetStatsOps
        \o EmitCheckOps }

\* what a thread does from the start of its handler (of one iteration,
\* for the loop)
Paths(t) ==
    CASE t = "handle_frame" -> { PutOps }
      [] t = "inference_loop" -> LoopPaths
      [] t = "start_tracking" ->
           { << Op("acquire", "tracking_lock", "always"), Op("set", "tracking_lock", "always") >>
               \o ResetOps \o << Op("release", "tracking_lock", "always") >> }
      [] t = "stop_tracking" ->
           { << Op("acquire", "tracking_lock", "always"),
                Op("clear", "tracking_lock", "always"),
                Op("release", "tracking_lock", "always") >> \o ReportOps }
      [] t = "reset_mistakes" -> { ResetOps }
      [] t = "tracking_status" -> { With("tracking_lock", "always") }
      [] t = "get_mistake_report" -> { ReportOps }
      [] t = "export_report" -> { ReportOps }

\* the operation a thread is at, and the rest
NextOp(t) == Head(threads.at[t])
Rest(t) == Tail(threads.at[t])
At(t, op) == threads.at[t] # <<>> /\ NextOp(t).op = op

\* a request arrives, a frame event arrives, the loop starts an iteration
Begin(t) ==
    /\ threads.at[t] = <<>>
    /\ \E path \in Paths(t) : threads' = [threads EXCEPT !.at[t] = path]
    /\ UNCHANGED <<bufVars, prodVars, connVars, loopVars, trackVars, emitted, histVars,
                   statusVars, smoothVars, callVars>>

\* the thread enters a with block: the lock is free and becomes its own
Acquire(t) ==
    /\ At(t, "acquire")
    /\ threads.holder[NextOp(t).lock] = Free
    /\ threads' = [threads EXCEPT !.at[t] = Rest(t), !.holder[NextOp(t).lock] = <<t>>]
    /\ UNCHANGED <<bufVars, prodVars, connVars, loopVars, trackVars, emitted, histVars,
                   statusVars, smoothVars, callVars>>

\* the thread leaves a with block
Release(t) ==
    /\ At(t, "release")
    /\ threads' = [threads EXCEPT !.at[t] = Rest(t), !.holder[NextOp(t).lock] = Free]
    /\ UNCHANGED <<bufVars, prodVars, connVars, loopVars, trackVars, emitted, histVars,
                   statusVars, smoothVars, callVars>>

\* the loop reads tracking_active: when it is not set, no log_error call
\* follows
ReadFlag(t) ==
    /\ At(t, "read")
    /\ threads' =
         [threads EXCEPT !.at[t] =
            IF tracking_active THEN Rest(t)
            ELSE SelectSeq(Rest(t), LAMBDA o : o.when = "always")]
    /\ UNCHANGED <<bufVars, prodVars, connVars, loopVars, trackVars, emitted, histVars,
                   statusVars, smoothVars, callVars>>

\* start_tracking_endpoint and stop_tracking_endpoint write tracking_active
WriteFlag(t) ==
    /\ At(t, "set") \/ At(t, "clear")
    /\ tracking_active' = At(t, "set")
    /\ threads' = [threads EXCEPT !.at[t] = Rest(t)]
    /\ UNCHANGED <<bufVars, prodVars, connVars, loopVars, max_mistakes, error_history,
                   error_counts, major_errors, session_start_time, session_id, now,
                   emitted, histVars, statusVars, smoothVars, callVars>>

LockNext ==
    \E t \in Threads :
        \/ Begin(t)
        \/ Acquire(t)
        \/ Release(t)
        \/ ReadFlag(t)
        \/ WriteFlag(t)

LockSpec == Init /\ [][LockNext]_vars

\* the locks a thread holds, the lock it is about to take, whether it
\* has to wait for it
Holds(t) == {l \in LockNames : threads.holder[l] = <<t>>}
Wants(t) == IF At(t, "acquire") THEN {NextOp(t).lock} ELSE {}
Blocked(t) == \E l \in Wants(t) : threads.holder[l] # Free

\* a thread that can take a step, or waits for a lock whose holder, within
\* n further holders, can
RECURSIVE Proceeds(_, _)
Proceeds(t, n) ==
    \/ ~Blocked(t)
    \/ /\ n > 0
       /\ \A l \in Wants(t) : \E u \in Threads : threads.holder[l] = <<u>> /\ Proceeds(u, n - 1)

\* C34: a thread that holds frame_buffer.lock is not about to take another
\* lock, and one that holds the tracker's lock is not about to take
\* tracking_lock or the tracker's lock again; every thread that waits for
\* a lock waits for a thread that can go on, or that waits for one that
\* can; and frame_buffer.lock is held only by the frame handler inside put
\* or the loop inside get or get_stats, holding nothing else and about to
\* release it, so that no administrative request makes a put or a get
\* wait.
C34_LockDiscipline ==
    /\ \A t \in Threads :
          /\ "frame_buffer.lock" \in Holds(t) => Wants(t) = {}
          /\ "mistake_tracker.lock" \in Holds(t) => Wants(t) = {}
          /\ Holds(t) \cap Wants(t) = {}
          /\ Proceeds(t, 2)
    /\ \A t \in Threads :
          "frame_buffer.lock" \in Holds(t) =>
             /\ t \in {"handle_frame", "inference_loop"}
             /\ Holds(t) = {"frame_buffer.lock"}
             /\ At(t, "release") /\ NextOp(t).lock = "frame_buffer.lock"

\* start_tracking holds tracking_lock and waits for the tracker's lock,
\* which the loop holds inside log_error; the status request waits for
\* tracking_lock; the frame handler is inside put
C34_Witness ==
    /\ Holds("start_tracking") = {"tracking_lock"}
    /\ Wants("start_tracking") = {"mistake_tracker.lock"}
    /\ Holds("inference_loop") = {"mistake_tracker.lock"}
    /\ Wants("tracking_status") = {"tracking_lock"}
    /\ Holds("handle_frame") = {"frame_buffer.lock"}

\* ------------------------------------------------------ calculate_angle_3d
\* A coordinate is a whole number of tenths of a micrometre (1e-7 m), an
\* angle a whole number of tenths of a degree.
Point(x, y, z) == [x |-> x, y |-> y, z |-> z]
\* the points given: on the axes at 2 and 4 micrometres from the origin,
\* and one 0.4 micrometres from it
AnglePoints ==
    { Point(0, 0, 0), Point(20, 0, 0), Point(-20, 0, 0), Point(40, 0, 0),
      Point(0, 20, 0), Point(0, 0, 20), Point(-4, 0, 0) }

Minus(p, q) == Point(p.x - q.x, p.y - q.y, p.z - q.z)
Dot(v, w) == v.x * w.x + v.y * w.y + v.z * w.z
\* np.linalg.norm(v) < 1e-6, on the square of the norm
Short(v) == Dot(v, v) < 100

RECURSIVE Gcd(_, _)
Gcd(a, b) == IF b = 0 THEN a ELSE Gcd(b, a % b)

\* round(np.degrees(np.arccos(c)), 1) for the cosine of sign sgn whose
\* square is num / den in lowest terms: the values for the cosines that
\* the points above give
ArccosDegrees(sgn, num, den) ==
    LET key == <<sgn, num, den>> IN
    CASE key = <<-1, 1, 1>> -> 1800
      [] key = <<-1, 1, 2>> -> 1350
      [] key = <<-1, 1, 10>> -> 1084
      [] key = <<-1, 1, 26>> -> 1013
      [] key = <<0, 0, 1>> -> 900
      [] key = <<1, 1, 1>> -> 0
      [] key = <<1, 1, 2>> -> 450
      [] key = <<1, 1, 4>> -> 600
      [] key = <<1, 1, 5>> -> 634
      [] key = <<1, 1, 10>> -> 716
      [] key = <<1, 1, 26>> -> 787
      [] key = <<1, 1, 676>> -> 878
      [] key = <<1, 4, 5>> -> 266
      [] key = <<1, 4, 13>> -> 563
      [] key = <<1, 9, 10>> -> 184
      [] key = <<1, 9, 13>> -> 337
      [] key = <<1, 9, 130>> -> 747
      [] key = <<1, 16, 25>> -> 369
      [] key = <<1, 25, 26>> -> 113
      [] key = <<1, 25, 52>> -> 461

\* the angle at p2 for vectors that are not short: the cosine is
\* dot / (norm_v1 * norm_v2), clipped to [-1, 1]
AngleOf(v1, v2) ==
    LET dot == Dot(v1, v2)
        norms == Dot(v1, v1) * Dot(v2, v2)
        square == IF dot * dot > norms THEN norms ELSE dot * dot
        g == Gcd(square, norms)
    IN ArccosDegrees(IF dot > 0 THEN 1 ELSE IF dot < 0 THEN -1 ELSE 0,
                     square \div g, norms \div g)

\* calculate_angle_3d as it would be if only a vector of length zero
\* counted as short
calculate_angle_3d_ZeroOnly(p1, p2, p3) ==
    LET v1 == Minus(p1, p2)
        v2 == Minus(p3, p2)
    IN IF Dot(v1, v1) = 0 \/ Dot(v2, v2) = 0 THEN 0 ELSE AngleOf(v1, v2)

\* calculate_angle_3d(p1, p2, p3)
calculate_angle_3d(p1, p2, p3) ==
    LET v1 == Minus(p1, p2)
        v2 == Minus(p3, p2)
    IN IF Short(v1) \/ Short(v2) THEN 0 ELSE AngleOf(v1, v2)

\* three points given
AngleInit ==
    /\ Loaded
    /\ \E p1 \in AnglePoints, p2 \in AnglePoints, p3 \in AnglePoints :
          call = [fn |-> "none", args |-> [p1 |-> p1, p2 |-> p2, p3 |-> p3],
                  result |-> Nothing]

\* the angle at p2 is calculated
AngleCall ==
    /\ call.result = Nothing
    /\ call' = [call EXCEPT !.fn = "calculate_angle_3d",
                            !.result = Just(calculate_angle_3d(call.args.p1, call.args.p2,
                                                               call.args.p3))]
    /\ UNCHANGED <<bufVars, prodVars, connVars, loopVars, trackVars, emitted, histVars,
                   statusVars, smoothVars, lockVars>>

AngleNext == AngleCall

AngleSpec == AngleInit /\ [][AngleNext]_vars

\* p2 lies on the segment from p1 to p3, strictly inside it
StrictlyBetween(p1, p2, p3) ==
    LET v1 == Minus(p1, p2)
        v2 == Minus(p3, p2)
    IN /\ v1.y * v2.z - v1.z * v2.y = 0
       /\ v1.z * v2.x - v1.x * v2.z = 0
       /\ v1.x * v2.y - v1.y * v2.x = 0
       /\ Dot(v1, v2) < 0

\* C36: calculate_angle_3d gives 180 degrees for three colinear points
\* with p2 strictly between p1 and p3 when both are at least 1e-6 from
\* p2; 0 degrees for p1 = p3; 0 degrees, and no error, when p1 or p3 is
\* less than 1e-6 from p2, colinear or not; and never less than 0 or more
\* than 180 degrees.
C36_AngleBoundaries ==
    (call.fn = "calculate_angle_3d" /\ call.result # Nothing) =>
        LET p1 == call.args.p1
            p2 == call.args.p2
            p3 == call.args.p3
            angle == The(call.result)
        IN /\ (StrictlyBetween(p1, p2, p3) /\ ~Short(Minus(p1, p2)) /\ ~Short(Minus(p3, p2)))
                => angle = 1800
           /\ p1 = p3 => angle = 0
           /\ (Short(Minus(p1, p2)) \/ Short(Minus(p3, p2))) => angle = 0
           /\ angle \in 0..1800

\* C36 as stated: 180 degrees for any three colinear points with p2
\* strictly between p1 and p3
C36_Claimed ==
    (call.fn = "calculate_angle_3d" /\ call.result # Nothing) =>
        (StrictlyBetween(call.args.p1, call.args.p2, call.args.p3)
           => The(call.result) = 1800)

\* the angle at the origin between points 2 and 4 micrometres from it on
\* opposite sides has been calculated: 180 degrees
C36_Witness ==
    /\ call.fn = "calculate_angle_3d"
    /\ call.args = [p1 |-> Point(-20, 0, 0), p2 |-> Point(0, 0, 0), p3 |-> Point(40, 0, 0)]
    /\ call.result = Just(1800)

\* C38: every pose_result emitted after another carries a later frame
\* than the one before it (frames are numbered in the order of their
\* puts), so that the emitted sequence numbers are a subsequence of the
\* put order without repetition.
C38_EmissionOrder ==
    [][\A l \in Connects :
          (Emit(l, TRUE) /\ emitted # NoEvent) => emitted'.sequence > emitted.sequence]_vars

\* the number of gets that returned a frame, over the frames up to n
RECURSIVE Taken(_)
Taken(n) == IF n = 0 THEN 0 ELSE takenCount[n] + Taken(n - 1)

\* C39: whenever no call is inside the buffer's lock, the number of puts
\* made equals the number of gets that returned a frame, plus the sum of
\* the values get_stats returned, plus the current dropped_count, plus one
\* if the slot holds a frame.
C39_FrameConservation ==
    lock = Free =>
        nextSeq = Taken(MaxPuts) + drained + dropped_count
                    + (IF frame_data # None THEN 1 ELSE 0)

\* two puts made, the first frame dropped and the drop returned by
\* get_stats, the second frame returned by a get, the slot empty
C39_Witness ==
    /\ lock = Free
    /\ nextSeq = 2
    /\ takenCount[1] = 0
    /\ takenCount[2] = 1
    /\ drained = 1
    /\ dropped_count = 0
    /\ frame_data = None

\* C40: the report never carries the grade "A+ Excellent!".  Every entry
\* of the history records a score of at least 5.0, since log_error keeps
\* only the scores above the 5.0 threshold and rounds them to hundredths;
\* so the average over a history that is not empty is never below 5, the
\* first row of the grades never matches, and the empty history is graded
\* "Perfect!".
C40_NeverTopGrade ==
    /\ \A i \in 1..Len(error_history) :
          error_history[i].error_score >= Milli(ERROR_THRESHOLD)
    /\ error_history # <<>> => avg_error >= Milli(5)
    /\ performance_grade # "A+ Excellent!"

\* a history of one entry, logged at 5.004, just above the threshold,
\* and recorded as 5.00, no major error: the average is exactly 5 and the
\* grade is the second row's
C40_Witness ==
    /\ Len(error_history) = 1
    /\ error_history[1].error_score = Milli(5)
    /\ major_errors = <<>>
    /\ avg_error = Milli(5)
    /\ performance_grade = "A Great performance!"

====
